---- MODULE Spec2Model ----
(***************************************************************************)
(* Model of the chore board photo pipeline of src/src/vision.py            *)
(* (PhotoProcessor.__init__ and PhotoProcessor._extract_features).         *)
(*                                                                         *)
(* One PhotoProcessor is constructed from a byte buffer.  The OpenCV       *)
(* primitives (imdecode, inRange, erode, dilate, HoughLinesP,              *)
(* warpPerspective) are external: their results are inputs drawn from      *)
(* bounded sets at the step that calls them.  Everything the repository    *)
(* itself computes (slope, approx_distance, the grouping loop with its     *)
(* numpy views, the count gate, the corner selection, the button           *)
(* rectangles and cutoffs, the index lists) is computed as the code        *)
(* computes it.  Slopes and distances are floats in the code; the model    *)
(* compares them exactly as rationals (cross-multiplied integers), with    *)
(* the IEEE results of a division by zero (inf, nan) kept as cases.        *)
(***************************************************************************)
EXTENDS Integers, Sequences, FiniteSets, TLC

VARIABLES
    pc,                 \* position of the constructor / _extract_features
    bytes,              \* the constructor argument `image: bytes`
    log_photos,         \* self.log_photos
    attrs,              \* names of the attributes that have been set on self
    image,              \* self.image: result of cv.imdecode
    snapshots,          \* diagnostic files written so far, in order
    lines,              \* the array returned by cv.HoughLinesP (<<>> is None)
    k,                  \* number of rows of `lines` the grouping loop has consumed
    group_lines,        \* list of views into `lines`: row numbers of `lines`
    group_line_num,     \* the parallel list group_line_num
    src,                \* the four corners c1..c4
    img_scale,          \* the rectified image, summarised per button rectangle
    i,                  \* row index of the sampling loop
    left_buttons,       \* np.zeros(NUMBER_BUTTONS), then 0/1 per row
    right_buttons,
    left_buttons_idx,   \* self.left_buttons_idx (meaningful when in attrs)
    right_buttons_idx,
    exc,                \* the exception that left the constructor, if any
    \* two PhotoProcessor constructions in parallel workers
    args,               \* per worker: the constructor arguments image, log_photos
    obj,                \* per instance: the attributes set on self
    frame,              \* per worker: position and locals of _extract_features
    clock,              \* the second time.strftime reports
    writable,           \* whether os.makedirs can create under PHOTO_LOG_DIR
    files,              \* per snapshot path: the workers that wrote it, in order
    \* one PersistentTable of storage.py and the threads using it
    row_type,           \* self.row_type
    fieldnames,         \* self.fieldnames
    items,              \* self.items
    datafile,           \* content of self.filename
    tmpfile,            \* content of self.filename + ".tmp"
    lock,               \* holder of self.lock (0: free)
    th,                 \* per thread: position in the call it is making
    log,                \* the modifications made, in the order they reached memory
    \* one run of run_reminders of reminder.py
    today,              \* datetime.date.today()
    ut,                 \* the rows of the user table
    kat,                \* what the kitchen assignment table holds for today
    rpc,                \* position in run_reminders / remind_choredoers
    u_idx,              \* users the loop of remind_choredoers has consumed
    outbox              \* the calls of ss.msg_user made, in order

soloVars == <<pc, bytes, log_photos, attrs, image, snapshots, lines, k, group_lines,
              group_line_num, src, img_scale, i, left_buttons, right_buttons,
              left_buttons_idx, right_buttons_idx, exc>>

pairVars == <<args, obj, frame, clock, writable, files>>

tableVars == <<row_type, fieldnames, items, datafile, tmpfile, lock, th, log>>

remindVars == <<today, ut, kat, rpc, u_idx, outbox>>

vars == <<soloVars, pairVars, tableVars, remindVars>>

----------------------------------------------------------------------------
(* Configuration constants of vision.py *)

NUMBER_WHITE_LINES == 24
MAX_SLOPE_NUM == 1
MAX_SLOPE_DEN == 3
MAX_SLOPE_DIF_NUM == 1
MAX_SLOPE_DIF_DEN == 10
MAX_LINE_DIST_NUM == 1
MAX_LINE_DIST_DEN == 100
HL_MIN_LINE_LENGTH_DEN == 8
HL_MAX_LINE_GAP_DEN == 1000
ERO_KERNEL_DEN == 400
DIL_KERNEL_DEN == 300
SCALE_WIDTH == 1000
SCALE_HEIGHT == 1500
NUMBER_BUTTONS == NUMBER_WHITE_LINES - 1

----------------------------------------------------------------------------
(* Bounds of the model *)

\* longest list of raw segments the detector returns for a free-form image
MaxSegs == 3

----------------------------------------------------------------------------
(* Arithmetic helpers *)

Abs(n) == IF n < 0 THEN -n ELSE n

Min(a, b) == IF a <= b THEN a ELSE b

Max(a, b) == IF a >= b THEN a ELSE b

RECURSIVE GCD(_, _)
GCD(a, b) == IF b = 0 THEN a ELSE GCD(b, a % b)

----------------------------------------------------------------------------
(* slope and approx_distance *)

\* A segment is <<x1, y1, x2, y2>>.
X1(l) == l[1]
Y1(l) == l[2]
X2(l) == l[3]
Y2(l) == l[4]
DX(l) == X2(l) - X1(l)
DY(l) == Y2(l) - Y1(l)

\* slope(line) = (y2-y1)/(x2-x1) on numpy integers: a float, and with
\* x2 = x1 the IEEE value inf, -inf (y2 # y1) or nan (y2 = y1), no exception.
slope(l) ==
    IF DX(l) # 0 THEN [kind |-> "finite", num |-> DY(l), den |-> DX(l)]
    ELSE IF DY(l) > 0 THEN [kind |-> "inf", num |-> 1, den |-> 0]
    ELSE IF DY(l) < 0 THEN [kind |-> "inf", num |-> -1, den |-> 0]
    ELSE [kind |-> "nan", num |-> 0, den |-> 0]

\* the filter as >=: a slope of exactly MAX_SLOPE rejected too
SlopeTooSteep_AtLeast(l) ==
    LET m == slope(l) IN
    CASE m.kind = "finite" ->
            MAX_SLOPE_DEN * Abs(m.num) >= MAX_SLOPE_NUM * Abs(m.den)
      [] m.kind = "inf" -> TRUE
      [] OTHER -> FALSE

\* abs(slope(li)) > MAX_SLOPE.  inf compares greater, nan compares false.
SlopeTooSteep(l) ==
    LET m == slope(l) IN
    CASE m.kind = "finite" ->
            MAX_SLOPE_DEN * Abs(m.num) > MAX_SLOPE_NUM * Abs(m.den)
      [] m.kind = "inf" -> TRUE
      [] OTHER -> FALSE

\* abs(slope(li) - slope(gl)) < MAX_SLOPE_DIF.  A difference involving inf
\* or nan is inf or nan and compares false.
SlopeClose(a, b) ==
    LET ma == slope(a)
        mb == slope(b)
    IN  /\ ma.kind = "finite"
        /\ mb.kind = "finite"
        /\ MAX_SLOPE_DIF_DEN * Abs(ma.num * mb.den - mb.num * ma.den)
              < MAX_SLOPE_DIF_NUM * Abs(ma.den * mb.den)

\* approx_distance(l1, l2) < img_height * MAX_LINE_DIST_MULT, for two
\* segments of finite slope.  With m = (m1+m2)/2 = N/D and the first
\* endpoints (x1,y1) of l1 and (x2,y2) of l2 re-centred on their mean x,
\*   b2 - b1 = (y2 - y1) + m*(x1 - x2),
\* and  |b2-b1| / sqrt(m^2+1) < h/100  is compared on the squares.
ApproxDistanceBelow(l1, l2, img_height) ==
    LET n0 == DY(l1) * DX(l2) + DY(l2) * DX(l1)
        d0 == 2 * DX(l1) * DX(l2)
        g  == GCD(Abs(n0), Abs(d0))
        n  == n0 \div g
        d  == d0 \div g
        a  == (Y1(l2) - Y1(l1)) * d + n * (X1(l1) - X1(l2))
        tg == GCD(img_height * MAX_LINE_DIST_NUM, MAX_LINE_DIST_DEN)
        tn == (img_height * MAX_LINE_DIST_NUM) \div tg
        td == MAX_LINE_DIST_DEN \div tg
    IN  (td * td) * (a * a) < (tn * tn) * (n * n + d * d)

\* the test of lines 172-173 (`and` evaluates the distance only when the
\* slopes are close, so both slopes are finite there)
SameLine(li, gl, img_height) ==
    /\ SlopeClose(li, gl)
    /\ ApproxDistanceBelow(li, gl, img_height)

----------------------------------------------------------------------------
(* The grouping loop, lines 161-190 *)

\* p = [li[:2], li[2:], gl[:2], gl[2:]]: four numpy views, here by value
Points(li, gl) ==
    << <<X1(li), Y1(li)>>, <<X2(li), Y2(li)>>,
       <<X1(gl), Y1(gl)>>, <<X2(gl), Y2(gl)>> >>

\* minp = p[0]; for pi in p[1:]: minp = min(minp, pi, key=x).  min keeps
\* its first argument on a tie.  The result is the position in p.
RECURSIVE MinPos(_, _, _)
MinPos(p, best, j) ==
    IF j > Len(p) THEN best
    ELSE MinPos(p, IF p[j][1] < p[best][1] THEN j ELSE best, j + 1)

\* maxp likewise; max keeps its first argument on a tie.
RECURSIVE MaxPos(_, _, _)
MaxPos(p, best, j) ==
    IF j > Len(p) THEN best
    ELSE MaxPos(p, IF p[j][1] > p[best][1] THEN j ELSE best, j + 1)

\* gl[:2] = minp; gl[2:] = maxp.  minp and maxp are views, not copies: when
\* maxp is the view gl[:2] (position 3), the first assignment has already
\* overwritten what the second one reads.
MergedGroup(li, gl) ==
    LET p      == Points(li, gl)
        mn     == MinPos(p, 1, 2)
        mx     == MaxPos(p, 1, 2)
        first  == p[mn]
        second == IF mx = 3 THEN first ELSE p[mx]
    IN  <<first[1], first[2], second[1], second[2]>>

\* positions in group_lines whose group passes the test for li
Matches(ls, gs, li, img_height) ==
    {j \in 1..Len(gs) : SameLine(li, ls[gs[j]], img_height)}

\* the latest-created matching group instead of the earliest
LastMatch(ls, gs, li, img_height) ==
    LET m == Matches(ls, gs, li, img_height)
    IN  CHOOSE j \in m : \A j2 \in m : j >= j2

\* `for i,gl in enumerate(group_lines): if ...: ...; break`: the first
\* group, in creation order, that passes the test
FirstMatch(ls, gs, li, img_height) ==
    LET m == Matches(ls, gs, li, img_height)
    IN  CHOOSE j \in m : \A j2 \in m : j <= j2

\* the loop without its `continue` after a merge: a merged segment is
\* appended as a group as well
GroupStep_AlsoAppends(st, img_height) ==
    LET li == st.lines[st.k + 1] IN
    IF SlopeTooSteep(li)
    THEN [st EXCEPT !.k = st.k + 1]
    ELSE IF Matches(st.lines, st.group_lines, li, img_height) # {}
    THEN LET j == FirstMatch(st.lines, st.group_lines, li, img_height)
             r == st.group_lines[j]
         IN  [st EXCEPT !.lines[r] = MergedGroup(li, st.lines[r]),
                        !.group_lines = Append(st.group_lines, st.k + 1),
                        !.group_line_num = Append(st.group_line_num, 1),
                        !.k = st.k + 1]
    ELSE [st EXCEPT !.group_lines = Append(st.group_lines, st.k + 1),
                    !.group_line_num = Append(st.group_line_num, 1),
                    !.k = st.k + 1]

\* One iteration of `for li in lines` on the loop state
\* [lines, group_lines, group_line_num, k], k rows already consumed.
\* A group is a view of a row of `lines`: merging writes that row.
GroupStep(st, img_height) ==
    LET li == st.lines[st.k + 1] IN
    IF SlopeTooSteep(li)
    THEN [st EXCEPT !.k = st.k + 1]
    ELSE IF Matches(st.lines, st.group_lines, li, img_height) # {}
    THEN LET j == FirstMatch(st.lines, st.group_lines, li, img_height)
             r == st.group_lines[j]
         IN  [st EXCEPT !.lines[r] = MergedGroup(li, st.lines[r]),
                        !.k = st.k + 1]
    ELSE [st EXCEPT !.group_lines = Append(st.group_lines, st.k + 1),
                    !.group_line_num = Append(st.group_line_num, 1),
                    !.k = st.k + 1]

RECURSIVE GroupRest(_, _)
GroupRest(st, img_height) ==
    IF st.k >= Len(st.lines) THEN st
    ELSE GroupRest(GroupStep(st, img_height), img_height)

\* the whole loop on a list of raw segments: the groups, by value
GroupLines(segs, img_height) ==
    LET st == GroupRest([lines |-> segs, group_lines |-> <<>>,
                         group_line_num |-> <<>>, k |-> 0], img_height)
    IN  [j \in 1..Len(st.group_lines) |-> st.lines[st.group_lines[j]]]

\* the groups of the running loop, by value
Groups == [j \in 1..Len(group_lines) |-> lines[group_lines[j]]]

----------------------------------------------------------------------------
(* External inputs: bytes, decoded images, detector results *)

\* img.shape[:2] of the decoded images considered: <<rows, columns>>
Shapes == {<<64, 100>>, <<64, 200>>}

NoImage == [ok |-> FALSE, rows |-> 0, cols |-> 0]

\* the byte buffers handed to the constructor
ByteInputs ==
    {[kind |-> "empty", shape |-> <<0, 0>>],
     [kind |-> "garbage", shape |-> <<0, 0>>]}
    \cup {[kind |-> "jpeg", shape |-> s] : s \in Shapes}

\* raw segments a detector may report for a free-form image: both endpoint
\* orders, halves of a line, near and far parallels, steep and vertical ones
SegmentPool ==
    { <<0, 0, 16, 0>>,  <<16, 0, 0, 0>>,  <<0, 1, 16, 1>>,  <<0, 8, 16, 8>>,
      <<0, 0, 8, 0>>,   <<8, 0, 16, 0>>,  <<16, 2, 0, 1>>,  <<8, 0, 8, 16>>,
      <<0, 0, 16, 8>>,  <<0, 0, 15, 5>>,  <<0, 0, 16, 2>> }

\* `img_width, img_height = img.shape[:2]`: shape is (rows, columns), so
\* img_width holds the row count and img_height the column count
img_width(img) == img.rows
img_height(img) == img.cols

\* int(w * MULT // 2 * 2 + 1) with MULT = 1/den: the float w/den, floor
\* division by 2, doubled, plus one ("make odd")
OddKernel(w, den) == 2 * (w \div (2 * den)) + 1

\* lines 129 and 135: both kernel sizes are computed from img_width
ero_kern_size(img) == OddKernel(img_width(img), ERO_KERNEL_DEN)

dil_kern_size(img) == OddKernel(img_width(img), DIL_KERNEL_DEN)

\* lines 149-150, as the fractions <<numerator, denominator>>
min_length(img) == <<img_width(img), HL_MIN_LINE_LENGTH_DEN>>

max_gap(img) == <<img_width(img), HL_MAX_LINE_GAP_DEN>>

\* line 173: img_height * MAX_LINE_DIST_MULT, as a fraction
dist_tolerance(img) == <<img_height(img) * MAX_LINE_DIST_NUM, MAX_LINE_DIST_DEN>>

InImage(seg, img) ==
    /\ X1(seg) \in 0..(img.cols - 1) /\ X2(seg) \in 0..(img.cols - 1)
    /\ Y1(seg) \in 0..(img.rows - 1) /\ Y2(seg) \in 0..(img.rows - 1)

\* HoughLinesP keeps a segment when |dx| or |dy| reaches minLineLength,
\* which the code sets to img_width * HL_MIN_LINE_LENGTH_MULT
LongEnough(seg, img) ==
    \/ HL_MIN_LINE_LENGTH_DEN * Abs(DX(seg)) >= img_width(img)
    \/ HL_MIN_LINE_LENGTH_DEN * Abs(DY(seg)) >= img_width(img)

DetectableSegments(img) ==
    {seg \in SegmentPool : InImage(seg, img) /\ LongEnough(seg, img)}

FreeLists(img) ==
    UNION {[1..n -> DetectableSegments(img)] : n \in 1..MaxSegs}

\* a photographed board: n horizontal gridlines, one raw segment each
GridLine(j) == <<0, 2 * (j - 1), 120, 2 * (j - 1)>>

PlainBoard(n) == [j \in 1..n |-> GridLine(j)]

\* the top gridline detected as two halves
SplitBoard(n) == <<<<0, 0, 60, 0>>, <<60, 0, 120, 0>>>> \o Tail(PlainBoard(n))

\* the second gridline reported right endpoint first
ReversedBoard(n) == [PlainBoard(n) EXCEPT ![2] = <<120, 2, 0, 2>>]

\* the top gridline detected over its left half only, and a slanted edge
\* that starts where that half ends, reported first
KinkedBoard(n) ==
    <<<<60, 0, 120, 15>>, <<0, 0, 60, 0>>>> \o Tail(PlainBoard(n - 1))

BoardLists(img) ==
    {b \in UNION {{PlainBoard(n), SplitBoard(n), ReversedBoard(n)} :
                    n \in (NUMBER_WHITE_LINES - 1)..(NUMBER_WHITE_LINES + 1)}
            \cup {KinkedBoard(NUMBER_WHITE_LINES)} :
        \A j \in 1..Len(b) : InImage(b[j], img) /\ LongEnough(b[j], img)}

\* the possible results of cv.HoughLinesP on an image: None (<<>>) or a
\* non-empty array of segments
HoughLinesP(img) == {<<>>} \cup FreeLists(img) \cup BoardLists(img)

----------------------------------------------------------------------------
(* Button rectangles, lines 43-50 and 230-260 *)

Sides == {"left", "right"}
Rows == 0..(NUMBER_BUTTONS - 1)

\* the rectangle starting on the gridline: no BUTTON_RECT_OFFSET_Y
RectTop_NoOffset(r) == (SCALE_HEIGHT * r) \div NUMBER_BUTTONS

\* int32 of ROW_HEIGHT * i + BUTTON_RECT_OFFSET_Y = SCALE_HEIGHT*(6i+1)/(6*NUMBER_BUTTONS)
RectTop(r) == (SCALE_HEIGHT * (6 * r + 1)) \div (6 * NUMBER_BUTTONS)

\* int32 of BUTTON_RECT_HEIGHT = 2/3 * ROW_HEIGHT
RectHeight == (2 * SCALE_HEIGHT) \div (3 * NUMBER_BUTTONS)

\* int32 of BUTTON_RECT_WIDTH_LEFT = 1/20 * SCALE_WIDTH, BUTTON_RECT_WIDTH_RIGHT = 1/10 * SCALE_WIDTH
RectWidth(side) ==
    IF side = "left" THEN SCALE_WIDTH \div 20 ELSE SCALE_WIDTH \div 10

\* lp1[0] = 0, rp1[0] = SCALE_WIDTH - BUTTON_RECT_WIDTH_RIGHT
RectLeft(side) == IF side = "left" THEN 0 ELSE SCALE_WIDTH - RectWidth("right")

\* img_scale[p1[1]:p2[1], p1[0]:p2[0]]: the sampled pixels, as inclusive
\* ranges clipped to the SCALE_WIDTH x SCALE_HEIGHT image
Slice(side, r) ==
    [x0 |-> RectLeft(side),
     x1 |-> Min(RectLeft(side) + RectWidth(side), SCALE_WIDTH) - 1,
     y0 |-> RectTop(r),
     y1 |-> Min(RectTop(r) + RectHeight, SCALE_HEIGHT) - 1]

SliceArea(side, r) ==
    LET b == Slice(side, r) IN (b.x1 - b.x0 + 1) * (b.y1 - b.y0 + 1)

\* an outline twice as high as the rectangle
OutlineBox_Tall(side, r) ==
    [x0 |-> RectLeft(side), x1 |-> RectLeft(side) + RectWidth(side),
     y0 |-> RectTop(r),     y1 |-> RectTop(r) + 2 * RectHeight]

\* cv.rectangle(img_scale, p1, p2, c, 1): the one-pixel outline of the box
\* with corners p1 and p2 = p1 + size, both inclusive
OutlineBox(side, r) ==
    [x0 |-> RectLeft(side), x1 |-> RectLeft(side) + RectWidth(side),
     y0 |-> RectTop(r),     y1 |-> RectTop(r) + RectHeight]

Span(a0, a1, b0, b1) == Max(0, Min(a1, b1) - Max(a0, b0) + 1)

BoxOverlap(a, b) == Span(a.x0, a.x1, b.x0, b.x1) * Span(a.y0, a.y1, b.y0, b.y1)

Shrink(a) == [x0 |-> a.x0 + 1, x1 |-> a.x1 - 1, y0 |-> a.y0 + 1, y1 |-> a.y1 - 1]

\* number of pixels of the outline drawn for (ds, dr) that lie in the
\* sampled pixels of (side, r)
OutlineOverlap(ds, dr, side, r) ==
    BoxOverlap(OutlineBox(ds, dr), Slice(side, r))
        - BoxOverlap(Shrink(OutlineBox(ds, dr)), Slice(side, r))

Markers == Sides \X Rows

\* the comparison as >=, on the cutoffs rounded down
ExceedsCutoff_AtLeast(count, side) ==
    count >= (2 * SCALE_HEIGHT * SCALE_WIDTH) \div (5 * 3 * NUMBER_BUTTONS * 20)

\* count > LEFT_COLOR_CUTOFF  (1/5 * BUTTON_RECT_HEIGHT * BUTTON_RECT_WIDTH_LEFT)
\* count > RIGHT_COLOR_CUTOFF (1/10 * BUTTON_RECT_HEIGHT * BUTTON_RECT_WIDTH_RIGHT)
\* on the unrounded constants: BUTTON_RECT_HEIGHT = 2*SCALE_HEIGHT/(3*NUMBER_BUTTONS)
ExceedsCutoff(count, side) ==
    IF side = "left"
    THEN count * (5 * 3 * NUMBER_BUTTONS * 20) > 2 * SCALE_HEIGHT * SCALE_WIDTH
    ELSE count * (10 * 3 * NUMBER_BUTTONS * 10) > 2 * SCALE_HEIGHT * SCALE_WIDTH

\* largest pixel count that does not exceed the cutoff of either side
CutoffFloor == (2 * SCALE_HEIGHT * SCALE_WIDTH) \div (5 * 3 * NUMBER_BUTTONS * 20)

----------------------------------------------------------------------------
(* The rectified image *)

\* rows whose button may be painted in the rectified images considered
PaintableRows == [left |-> {2, 5, NUMBER_BUTTONS - 1}, right |-> {0, 3}]

\* matching pixels in a rectangle: painted ones are full (or, faint, one
\* pixel above the cutoff), the others empty (or, faint, at the cutoff floor)
PaintCount(side, r, painted, faint) ==
    IF painted THEN (IF faint THEN CutoffFloor + 1 ELSE SliceArea(side, r))
    ELSE (IF faint THEN CutoffFloor ELSE 0)

\* the possible results of cv.warpPerspective, summarised as the number of
\* button-coloured pixels in each sampled rectangle; `over` counts the
\* pixels of a rectangle that marker outlines have overwritten since (kept
\* for the rectangles of the current and later rows: those of earlier rows
\* are never read again)
RectifiedImages ==
    {[cnt |-> [side \in Sides |-> [r \in Rows |->
                 PaintCount(side, r,
                            r \in (IF side = "left" THEN L ELSE R), faint)]],
      over |-> [s \in Markers |-> 0]] :
        L \in SUBSET PaintableRows.left, R \in SUBSET PaintableRows.right,
        faint \in BOOLEAN}

NoRectified ==
    [cnt |-> [side \in Sides |-> [r \in Rows |-> 0]],
     over |-> [s \in Markers |-> 0]]

\* np.count_nonzero(mask) of a rectangle: the warped count, less whatever
\* part of it an outline has overwritten (the outline colours are in
\* neither button range)
MatchCounts(img, side, r) ==
    {img.cnt[side][r], Max(0, img.cnt[side][r] - img.over[<<side, r>>])}

\* cv.rectangle on img_scale for the marker of (ds, dr)
DrawMarker(img, ds, dr) ==
    [img EXCEPT !.over = [s \in Markers |->
        IF s[2] < dr THEN img.over[s]
        ELSE img.over[s] + OutlineOverlap(ds, dr, s[1], s[2])]]

\* np.nonzero(a)[0].tolist(): the indices of the non-zero entries, ascending
RECURSIVE NonzeroFrom(_, _)
NonzeroFrom(a, r) ==
    IF r >= NUMBER_BUTTONS THEN <<>>
    ELSE (IF a[r] # 0 THEN <<r>> ELSE <<>>) \o NonzeroFrom(a, r + 1)

\* the indices counted from one
Nonzero_OneBased(a) ==
    [j \in 1..Len(NonzeroFrom(a, 0)) |-> NonzeroFrom(a, 0)[j] + 1]

Nonzero(a) == NonzeroFrom(a, 0)

----------------------------------------------------------------------------
(* Exceptions.  args lists the values interpolated into the message. *)

NoException == [type |-> "none", args |-> <<>>]

\* cv.imdecode on an empty buffer, in the OpenCV builds that reject it
DecodeError == [type |-> "cv2.error", args |-> <<>>]

\* an undecodable buffer reported as a missing board
ShapeOfNoneError_AsNotFound == [type |-> "ChoreBoardNotFound", args |-> <<>>]

\* img.shape on the None that cv.imdecode returns for undecodable bytes
ShapeOfNoneError == [type |-> "AttributeError", args |-> <<>>]

\* lines 155-156: a fixed message
NoLinesError == [type |-> "ChoreBoardNotFound", args |-> <<>>]

\* the mismatch message without its counts
LineCountError_NoCounts(found) == [type |-> "ChoreBoardNotFound", args |-> <<>>]

\* lines 200-203: f"... {len(group_lines)} were found. There should be {NUMBER_WHITE_LINES} ..."
LineCountError(found) ==
    [type |-> "ChoreBoardNotFound", args |-> <<found, NUMBER_WHITE_LINES>>]

\* the test of line 154 left out
NothingDetected_Never(ls) == FALSE

\* line 154: `lines is None`
NothingDetected(ls) == ls = <<>>

\* the gate as "too few lines" only
GateFails_TooFew(found) == found < NUMBER_WHITE_LINES

\* line 199
GateFails(found) == found # NUMBER_WHITE_LINES

----------------------------------------------------------------------------
(* Corner selection, lines 208-211.  max and min return the first extreme
   element of the list. *)

FirstArgMax(gs, c) ==
    CHOOSE j \in 1..Len(gs) :
        /\ \A j2 \in 1..Len(gs) : gs[j2][c] <= gs[j][c]
        /\ \A j2 \in 1..(j - 1) : gs[j2][c] < gs[j][c]

FirstArgMin(gs, c) ==
    CHOOSE j \in 1..Len(gs) :
        /\ \A j2 \in 1..Len(gs) : gs[j2][c] >= gs[j][c]
        /\ \A j2 \in 1..(j - 1) : gs[j2][c] > gs[j][c]

\* max and min exchanged
Corners_Flipped(gs) ==
    LET g1 == gs[FirstArgMin(gs, 2)]
        g2 == gs[FirstArgMax(gs, 2)]
        g3 == gs[FirstArgMin(gs, 4)]
        g4 == gs[FirstArgMax(gs, 4)]
    IN  << <<g1[1], g1[2]>>, <<g2[1], g2[2]>>,
           <<g3[3], g3[4]>>, <<g4[3], g4[4]>> >>

\* src = [c1, c2, c3, c4], lines 208-213
Corners(gs) ==
    LET g1 == gs[FirstArgMax(gs, 2)]
        g2 == gs[FirstArgMin(gs, 2)]
        g3 == gs[FirstArgMax(gs, 4)]
        g4 == gs[FirstArgMin(gs, 4)]
    IN  << <<g1[1], g1[2]>>, <<g2[1], g2[2]>>,
           <<g3[3], g3[4]>>, <<g4[3], g4[4]>> >>

\* dst, lines 214-219: where c1..c4 are mapped to
Dst ==
    << <<0, SCALE_HEIGHT>>, <<0, 0>>,
       <<SCALE_WIDTH, SCALE_HEIGHT>>, <<SCALE_WIDTH, 0>> >>

\* dsize of cv.warpPerspective, line 223: <<width, height>> of img_scale
WarpSize == <<SCALE_WIDTH, SCALE_HEIGHT>>

----------------------------------------------------------------------------
(* The constructor and _extract_features *)

Zeros == [r \in Rows |-> 0]

\* no parallel workers, no table: the single run of Spec has neither
PairIdle ==
    /\ args = <<>>
    /\ obj = <<>>
    /\ frame = <<>>
    /\ clock = 0
    /\ writable = TRUE
    /\ files = <<>>

TableIdle ==
    /\ row_type = "none"
    /\ fieldnames = <<>>
    /\ items = <<>>
    /\ datafile = <<>>
    /\ tmpfile = <<>>
    /\ lock = 0
    /\ th = <<>>
    /\ log = <<>>

\* the newest snapshot listed first
\* no reminder run
RemindIdle ==
    /\ today = [year |-> 0, month |-> 0, day |-> 0]
    /\ ut = <<>>
    /\ kat = "none"
    /\ rpc = "off"
    /\ u_idx = 0
    /\ outbox = <<>>

Log_Prepend(n) == IF log_photos THEN <<n>> \o snapshots ELSE snapshots

\* `if self.log_photos: cv.imwrite(photo_name_prefix + "<n>_...jpg", ...)`
Log(n) == IF log_photos THEN Append(snapshots, n) ELSE snapshots

Init ==
    /\ pc = "new"
    /\ bytes \in ByteInputs
    /\ log_photos \in BOOLEAN
    /\ attrs = {}
    /\ image = NoImage
    /\ snapshots = <<>>
    /\ lines = <<>>
    /\ k = 0
    /\ group_lines = <<>>
    /\ group_line_num = <<>>
    /\ src = <<>>
    /\ img_scale = NoRectified
    /\ i = 0
    /\ left_buttons = Zeros
    /\ right_buttons = Zeros
    /\ left_buttons_idx = <<>>
    /\ right_buttons_idx = <<>>
    /\ exc = NoException
    /\ PairIdle
    /\ TableIdle
    /\ RemindIdle

\* the failure swallowed: the constructor returns
Raise_Returns(e) == pc' = "done" /\ exc' = e

\* `raise`: the exception leaves _extract_features and __init__
Raise(e) == pc' = "raised" /\ exc' = e

\* __init__, lines 87-96, up to the call of _extract_features.  cv.imdecode
\* returns None for bytes that are no image; for an empty buffer it raises
\* cv2.error or returns None, depending on the OpenCV build.
Decode ==
    /\ pc = "new"
    /\ UNCHANGED <<pairVars, tableVars, remindVars>>
    /\ \/ /\ bytes.kind = "empty"
          /\ Raise(DecodeError)
          /\ UNCHANGED <<image, attrs>>
       \/   /\ image' = IF bytes.kind = "jpeg"
                        THEN [ok |-> TRUE, rows |-> bytes.shape[1], cols |-> bytes.shape[2]]
                        ELSE NoImage
            /\ attrs' = attrs \cup {"image", "log_photos"}
            /\ pc' = "mask"
            /\ UNCHANGED exc
    /\ UNCHANGED <<bytes, log_photos, snapshots, lines, k, group_lines, group_line_num,
                   src, img_scale, i, left_buttons, right_buttons,
                   left_buttons_idx, right_buttons_idx>>

\* lines 115-126
LineMask ==
    /\ pc = "mask"
    /\ UNCHANGED <<pairVars, tableVars, remindVars>>
    /\ IF ~image.ok
       THEN /\ Raise(ShapeOfNoneError)
            /\ UNCHANGED snapshots
       ELSE /\ snapshots' = Log(1)
            /\ pc' = "erode"
            /\ UNCHANGED exc
    /\ UNCHANGED <<bytes, log_photos, attrs, image, lines, k, group_lines, group_line_num,
                   src, img_scale, i, left_buttons, right_buttons,
                   left_buttons_idx, right_buttons_idx>>

\* lines 129-133
Erode ==
    /\ pc = "erode"
    /\ UNCHANGED <<pairVars, tableVars, remindVars>>
    /\ snapshots' = Log(2)
    /\ pc' = "dilate"
    /\ UNCHANGED <<bytes, log_photos, attrs, image, lines, k, group_lines, group_line_num,
                   src, img_scale, i, left_buttons, right_buttons,
                   left_buttons_idx, right_buttons_idx, exc>>

\* lines 135-139
Dilate ==
    /\ pc = "dilate"
    /\ UNCHANGED <<pairVars, tableVars, remindVars>>
    /\ snapshots' = Log(3)
    /\ pc' = "hough"
    /\ UNCHANGED <<bytes, log_photos, attrs, image, lines, k, group_lines, group_line_num,
                   src, img_scale, i, left_buttons, right_buttons,
                   left_buttons_idx, right_buttons_idx, exc>>

\* lines 144-162
Detect ==
    /\ pc = "hough"
    /\ UNCHANGED <<pairVars, tableVars, remindVars>>
    /\ \E ls \in HoughLinesP(image) :
          /\ lines' = ls
          /\ IF NothingDetected(ls)
             THEN Raise(NoLinesError)
             ELSE pc' = "group" /\ UNCHANGED exc
    /\ k' = 0
    /\ group_lines' = <<>>
    /\ group_line_num' = <<>>
    /\ UNCHANGED <<bytes, log_photos, attrs, image, snapshots,
                   src, img_scale, i, left_buttons, right_buttons,
                   left_buttons_idx, right_buttons_idx>>

\* one iteration of the loop of lines 163-190
GroupSegment ==
    /\ pc = "group"
    /\ UNCHANGED <<pairVars, tableVars, remindVars>>
    /\ k < Len(lines)
    /\ LET st == GroupStep([lines |-> lines, group_lines |-> group_lines,
                            group_line_num |-> group_line_num, k |-> k],
                           img_height(image))
       IN  /\ lines' = st.lines
           /\ group_lines' = st.group_lines
           /\ group_line_num' = st.group_line_num
           /\ k' = st.k
    /\ UNCHANGED <<pc, bytes, log_photos, attrs, image, snapshots,
                   src, img_scale, i, left_buttons, right_buttons,
                   left_buttons_idx, right_buttons_idx, exc>>

\* lines 192-197: the overlay is drawn on line_image, a copy of img
Overlay ==
    /\ pc = "group"
    /\ UNCHANGED <<pairVars, tableVars, remindVars>>
    /\ k = Len(lines)
    /\ snapshots' = Log(4)
    /\ pc' = "gate"
    /\ UNCHANGED <<bytes, log_photos, attrs, image, lines, k, group_lines, group_line_num,
                   src, img_scale, i, left_buttons, right_buttons,
                   left_buttons_idx, right_buttons_idx, exc>>

\* lines 199-203
Gate ==
    /\ pc = "gate"
    /\ UNCHANGED <<pairVars, tableVars, remindVars>>
    /\ IF GateFails(Len(group_lines))
       THEN Raise(LineCountError(Len(group_lines)))
       ELSE pc' = "corners" /\ UNCHANGED exc
    /\ UNCHANGED <<bytes, log_photos, attrs, image, snapshots, lines, k, group_lines,
                   group_line_num, src, img_scale, i, left_buttons, right_buttons,
                   left_buttons_idx, right_buttons_idx>>

\* lines 208-229
Rectify ==
    /\ pc = "corners"
    /\ UNCHANGED <<pairVars, tableVars, remindVars>>
    /\ src' = Corners(Groups)
    /\ img_scale' \in RectifiedImages
    /\ left_buttons' = Zeros
    /\ right_buttons' = Zeros
    /\ i' = 0
    /\ pc' = "sample"
    /\ UNCHANGED <<bytes, log_photos, attrs, image, snapshots, lines, k, group_lines,
                   group_line_num, left_buttons_idx, right_buttons_idx, exc>>

\* the flag stored inverted
Flag_Inverted(count, side) == IF ExceedsCutoff(count, side) THEN 0 ELSE 1

\* left_buttons[i] = count > LEFT_COLOR_CUTOFF, stored in a float array
Flag(count, side) == IF ExceedsCutoff(count, side) THEN 1 ELSE 0

\* one iteration of the loop of lines 230-260
SampleRow ==
    /\ pc = "sample"
    /\ UNCHANGED <<pairVars, tableVars, remindVars>>
    /\ i < NUMBER_BUTTONS
    /\ \E cl \in MatchCounts(img_scale, "left", i) :
          LET img1 == DrawMarker(img_scale, "left", i) IN
          \E cr \in MatchCounts(img1, "right", i) :
              /\ left_buttons' = [left_buttons EXCEPT ![i] = Flag(cl, "left")]
              /\ right_buttons' = [right_buttons EXCEPT ![i] = Flag(cr, "right")]
              /\ img_scale' = DrawMarker(img1, "right", i)
    /\ i' = i + 1
    /\ UNCHANGED <<pc, bytes, log_photos, attrs, image, snapshots, lines, k, group_lines,
                   group_line_num, src, left_buttons_idx, right_buttons_idx, exc>>

\* lines 262-267, and the return of the constructor
Finish ==
    /\ pc = "sample"
    /\ UNCHANGED <<pairVars, tableVars, remindVars>>
    /\ i = NUMBER_BUTTONS
    /\ snapshots' = Log(5)
    /\ left_buttons_idx' = Nonzero(left_buttons)
    /\ right_buttons_idx' = Nonzero(right_buttons)
    /\ attrs' = attrs \cup {"image_processed", "left_buttons_idx", "right_buttons_idx"}
    /\ pc' = "done"
    /\ UNCHANGED <<bytes, log_photos, image, lines, k, group_lines, group_line_num,
                   src, img_scale, i, left_buttons, right_buttons, exc>>

Next ==
    \/ Decode
    \/ LineMask
    \/ Erode
    \/ Dilate
    \/ Detect
    \/ GroupSegment
    \/ Overlay
    \/ Gate
    \/ Rectify
    \/ SampleRow
    \/ Finish

Spec == Init /\ [][Next]_vars

----------------------------------------------------------------------------
(* Properties *)

Raised(t) == pc = "raised" /\ exc.type = t

ResultAttrs == {"image_processed", "left_buttons_idx", "right_buttons_idx"}

\* the detector has run (and, with lines = <<>>, returned None)
Detected == image.ok /\ pc \notin {"mask", "erode", "dilate", "hough"}

PastGate == pc \in {"corners", "sample", "done"}

\* C1: a run whose detector returned segments fails with ChoreBoardNotFound
\* at the gate exactly when the number of groups differs from
\* NUMBER_WHITE_LINES, and the failure reports the number of groups found;
\* a run that passed the gate has exactly NUMBER_WHITE_LINES groups.
C1_GateIffCountDiffers ==
    /\ PastGate => Len(group_lines) = NUMBER_WHITE_LINES
    /\ (pc = "raised" /\ Detected /\ lines # <<>>) =>
          /\ exc.type = "ChoreBoardNotFound"
          /\ Len(group_lines) # NUMBER_WHITE_LINES
          /\ Len(exc.args) > 0
          /\ exc.args[1] = Len(group_lines)

\* 24 raw segments, 23 groups: the gate fails and reports 23
C1_Witness ==
    /\ Raised("ChoreBoardNotFound")
    /\ Len(lines) = NUMBER_WHITE_LINES
    /\ Len(group_lines) = NUMBER_WHITE_LINES - 1
    /\ exc.args = <<NUMBER_WHITE_LINES - 1, NUMBER_WHITE_LINES>>

\* C2: when the detector returns no segments the run has failed with
\* ChoreBoardNotFound, and nothing of grouping, corner selection,
\* rectification or sampling has happened, nor is any result attribute set.
C2_NoSegmentsFailsEarly ==
    (Detected /\ lines = <<>>) =>
        /\ Raised("ChoreBoardNotFound")
        /\ k = 0
        /\ group_lines = <<>>
        /\ src = <<>>
        /\ img_scale = NoRectified
        /\ i = 0
        /\ attrs \cap ResultAttrs = {}
        /\ \A n \in 1..Len(snapshots) : snapshots[n] < 4

C2_Witness ==
    /\ Raised("ChoreBoardNotFound")
    /\ image.ok
    /\ lines = <<>>
    /\ snapshots = <<1, 2, 3>>

C4_DecodeFailureIsDistinct ==
    /\ (bytes.kind # "jpeg" /\ pc \notin {"new", "mask"}) =>
          /\ pc = "raised"
          /\ exc.type \in {"cv2.error", "AttributeError"}
          /\ attrs \cap ResultAttrs = {}
    /\ exc.type = "ChoreBoardNotFound" => (bytes.kind = "jpeg" /\ image.ok)

C4_Witness ==
    /\ Raised("AttributeError")
    /\ bytes.kind = "garbage"
    /\ ~image.ok

StrictlyAscendingRows(q) ==
    /\ \A n \in 1..Len(q) : q[n] \in Rows
    /\ \A n \in 1..(Len(q) - 1) : q[n] < q[n + 1]

\* C5: after a successful run both index lists are strictly ascending
\* lists of row indices in 0..NUMBER_BUTTONS-1, and row 0 is the topmost
\* sampled rectangle.
C5_IndexListsAscendingInRange ==
    pc = "done" =>
        /\ StrictlyAscendingRows(left_buttons_idx)
        /\ StrictlyAscendingRows(right_buttons_idx)
        /\ \A r \in Rows : r > 0 => RectTop(0) < RectTop(r)

\* three marked rows on the left, the last row among them
C5_Witness ==
    /\ pc = "done"
    /\ left_buttons_idx = <<2, 5, NUMBER_BUTTONS - 1>>
    /\ Len(right_buttons_idx) = 2

InList(r, q) == \E n \in 1..Len(q) : q[n] = r

\* C6: after a successful run, row r is in a side's list exactly when the
\* number of matching pixels of that side's rectangle of row r is strictly
\* above the side's cutoff, 2*SCALE_HEIGHT*SCALE_WIDTH/(300*NUMBER_BUTTONS).
C6_MarkedIffAboveCutoff ==
    pc = "done" =>
        \A r \in Rows :
            /\ InList(r, left_buttons_idx) <=>
                  300 * NUMBER_BUTTONS * img_scale.cnt["left"][r]
                      > 2 * SCALE_HEIGHT * SCALE_WIDTH
            /\ InList(r, right_buttons_idx) <=>
                  300 * NUMBER_BUTTONS * img_scale.cnt["right"][r]
                      > 2 * SCALE_HEIGHT * SCALE_WIDTH

\* a row one pixel above the cutoff is marked, rows at the cutoff floor are not
C6_Witness ==
    /\ pc = "done"
    /\ img_scale.cnt["left"][2] = CutoffFloor + 1
    /\ img_scale.cnt["left"][3] = CutoffFloor
    /\ img_scale.cnt["right"][2] = CutoffFloor
    /\ left_buttons_idx = <<2>>
    /\ right_buttons_idx = <<0, 3>>

\* the rows of a side whose rectangle is painted, ascending
RECURSIVE PaintedFrom(_, _)
PaintedFrom(side, r) ==
    IF r >= NUMBER_BUTTONS THEN <<>>
    ELSE (IF img_scale.cnt[side][r] = SliceArea(side, r) THEN <<r>> ELSE <<>>)
            \o PaintedFrom(side, r + 1)

FullyPainted ==
    \A side \in Sides : \A r \in Rows :
        img_scale.cnt[side][r] \in {0, SliceArea(side, r)}

C8_RegroupingIsIdentity ==
    pc = "gate" => GroupLines(Groups, img_height(image)) = Groups

\* C9 as claimed: when the corners are selected every group, merged or
\* not, has its first endpoint at the smaller x.
C9_FirstEndpointLeftmost ==
    pc = "corners" => \A j \in 1..Len(Groups) : X1(Groups[j]) <= X2(Groups[j])

\* the step just taken merged the segment lines[k+1] into an existing group
MergeStep ==
    /\ pc = "group"
    /\ k < Len(lines)
    /\ k' = k + 1
    /\ group_lines' = group_lines
    /\ ~SlopeTooSteep(lines[k + 1])

\* g2 runs from a point of smallest x to a point of largest x among the
\* endpoints of li and g
SpansExtremes(g2, li, g) ==
    LET p  == Points(li, g)
        ps == {p[n] : n \in 1..4}
    IN  /\ <<g2[1], g2[2]>> \in ps
        /\ <<g2[3], g2[4]>> \in ps
        /\ \A q \in ps : g2[1] <= q[1] /\ q[1] <= g2[3]

\* C10 as claimed: a merge leaves the group running from the point of
\* smallest x to the point of largest x among the two endpoints of the
\* segment and the two endpoints the group had before the merge.
C10_MergeTakesExtremePoints ==
    [][MergeStep =>
          LET r == group_lines[FirstMatch(lines, group_lines, lines[k + 1],
                                          img_height(image))]
          IN  SpansExtremes(lines'[r], lines[k + 1], lines[r])]_vars

\* the x-interval of a segment or group
MinX(l) == Min(X1(l), X2(l))

MaxX(l) == Max(X1(l), X2(l))

\* C11 as claimed: while the grouping loop runs no group's extent shrinks:
\* the smallest endpoint x of a group never increases and its largest
\* endpoint x never decreases.
C11_ExtentNeverShrinks ==
    [][pc = "group" =>
          \A j \in 1..Len(group_lines) :
              /\ MinX(lines'[group_lines[j]]) <= MinX(lines[group_lines[j]])
              /\ MaxX(lines'[group_lines[j]]) >= MaxX(lines[group_lines[j]])]_vars

\* the step just taken consumed the segment lines[k+1]
SegmentStep == pc = "group" /\ k < Len(lines) /\ k' = k + 1

\* |dy/dx| > 1/3 on the endpoint differences; a vertical segment counts
Steep(l) ==
    \/ DX(l) = 0 /\ DY(l) # 0
    \/ DX(l) # 0 /\ 3 * Abs(DY(l)) > Abs(DX(l))

\* |dy/dx| <= 1/3
Gentle(l) == DX(l) # 0 /\ 3 * Abs(DY(l)) <= Abs(DX(l))

\* C17: a segment steeper than MAX_SLOPE = 1/3, a vertical one included,
\* is skipped: no group is created, no group changes, no error is raised
\* and the loop goes on; a segment of absolute slope at most 1/3 is
\* considered: it starts a new group unless it passes the test of a group.
C17_SteepSegmentsSkipped ==
    [][SegmentStep =>
          LET li == lines[k + 1] IN
          /\ Steep(li) =>
                /\ lines' = lines
                /\ group_lines' = group_lines
                /\ group_line_num' = group_line_num
                /\ pc' = "group"
                /\ exc' = NoException
          /\ Gentle(li) =>
                \/ group_lines' = Append(group_lines, k + 1)
                \/ \E j \in 1..Len(group_lines) :
                       SameLine(li, lines[group_lines[j]], img_height(image))]_vars

\* a vertical segment and one of slope 1/2 skipped, one of slope exactly
\* 1/3 made a group
C17_Witness ==
    /\ pc = "group"
    /\ k = 3
    /\ lines = <<<<8, 0, 8, 16>>, <<0, 0, 15, 5>>, <<0, 0, 16, 8>>>>
    /\ group_lines = <<2>>
    /\ exc = NoException

\* C18: a slope-passing segment is merged exactly when some group, with
\* the endpoints it has at that moment, has slope closer than MAX_SLOPE_DIF
\* and approx_distance below the tolerance; it then goes into the
\* earliest-created such group and no other row changes; otherwise it
\* becomes a new group appended after the existing ones.
C18_MergedIntoEarliestMatch ==
    [][(SegmentStep /\ Gentle(lines[k + 1])) =>
          LET li == lines[k + 1]
              M  == {j \in 1..Len(group_lines) :
                       /\ SlopeClose(li, lines[group_lines[j]])
                       /\ ApproxDistanceBelow(li, lines[group_lines[j]],
                                              img_height(image))}
          IN  IF M = {}
              THEN /\ group_lines' = Append(group_lines, k + 1)
                   /\ lines' = lines
              ELSE /\ group_lines' = group_lines
                   /\ \E j \in M :
                         /\ \A j2 \in M : j <= j2
                         /\ \A r \in 1..Len(lines) :
                               r # group_lines[j] => lines'[r] = lines[r]
                         /\ X1(lines'[group_lines[j]]) <= MinX(li)
                         /\ X1(lines'[group_lines[j]])
                               <= MinX(lines[group_lines[j]])]_vars

\* the third segment passes the test of both groups and went into the first
C18_Witness ==
    /\ pc = "group"
    /\ k = 3
    /\ img_height(image) = 200
    /\ lines = <<<<0, 1, 16, 2>>, <<0, 0, 16, 2>>, <<16, 2, 0, 1>>>>
    /\ group_lines = <<1, 2>>

\* C19: once the corners are selected, c1 is the first endpoint of a group
\* of maximum first-endpoint y, c2 that of a group of minimum first-endpoint
\* y, c3 the second endpoint of a group of maximum second-endpoint y, c4
\* that of a group of minimum second-endpoint y; they are mapped to (0, H),
\* (0, 0), (W, H), (W, 0) with W x H = 1000 x 1500 for every image shape.
C19_CornersFromExtremeGroups ==
    pc \in {"sample", "done"} =>
        /\ Len(src) = 4
        /\ \E j \in 1..Len(Groups) :
              /\ \A j2 \in 1..Len(Groups) : Y1(Groups[j2]) <= Y1(Groups[j])
              /\ src[1] = <<X1(Groups[j]), Y1(Groups[j])>>
        /\ \E j \in 1..Len(Groups) :
              /\ \A j2 \in 1..Len(Groups) : Y1(Groups[j2]) >= Y1(Groups[j])
              /\ src[2] = <<X1(Groups[j]), Y1(Groups[j])>>
        /\ \E j \in 1..Len(Groups) :
              /\ \A j2 \in 1..Len(Groups) : Y2(Groups[j2]) <= Y2(Groups[j])
              /\ src[3] = <<X2(Groups[j]), Y2(Groups[j])>>
        /\ \E j \in 1..Len(Groups) :
              /\ \A j2 \in 1..Len(Groups) : Y2(Groups[j2]) >= Y2(Groups[j])
              /\ src[4] = <<X2(Groups[j]), Y2(Groups[j])>>
        /\ Dst = << <<0, 1500>>, <<0, 0>>, <<1000, 1500>>, <<1000, 0>> >>
        /\ WarpSize = <<1000, 1500>>

\* a board of 24 gridlines: the corners are the ends of the first and last
C19_Witness ==
    /\ pc = "done"
    /\ Len(group_lines) = NUMBER_WHITE_LINES
    /\ src = << <<0, 46>>, <<0, 0>>, <<120, 46>>, <<120, 0>> >>

\* twice the signed area of the triangle a, b, c
Cross(a, b, c) ==
    (b[1] - a[1]) * (c[2] - a[2]) - (b[2] - a[2]) * (c[1] - a[1])

\* four points, no three collinear (hence pairwise distinct)
NonDegenerate(q) ==
    \A a, b, c \in 1..4 :
        (a < b /\ b < c) => Cross(q[a], q[b], q[c]) # 0

\* C20 as claimed: a run that returned used four corner points that are
\* pairwise distinct with no three collinear; degenerate corners end in a
\* failure.
C20_ReturnedImpliesNonDegenerate ==
    pc = "done" => NonDegenerate(src)

\* C21 as claimed: for an image of R rows and C columns the erosion kernel
\* length, the dilation kernel side, the minimum segment length C/8 and
\* the maximum gap C/1000 are computed from the column count C, and the
\* grouping distance tolerance is R/100, from the row count R.
C21_WidthIsColumns ==
    (image.ok /\ pc # "mask") =>
        /\ ero_kern_size(image) = OddKernel(image.cols, ERO_KERNEL_DEN)
        /\ dil_kern_size(image) = OddKernel(image.cols, DIL_KERNEL_DEN)
        /\ min_length(image) = <<image.cols, HL_MIN_LINE_LENGTH_DEN>>
        /\ max_gap(image) = <<image.cols, HL_MAX_LINE_GAP_DEN>>
        /\ dist_tolerance(image) = <<image.rows * MAX_LINE_DIST_NUM, MAX_LINE_DIST_DEN>>

\* the rectangle of a side in row r lies in the SCALE_WIDTH x SCALE_HEIGHT
\* image and strictly between the gridline positions r*ROW_HEIGHT and
\* (r+1)*ROW_HEIGHT (compared after multiplying by NUMBER_BUTTONS)
InsideBand(side, r) ==
    /\ 0 <= RectLeft(side)
    /\ RectLeft(side) + RectWidth(side) <= SCALE_WIDTH
    /\ 0 <= RectTop(r)
    /\ RectTop(r) + RectHeight <= SCALE_HEIGHT
    /\ NUMBER_BUTTONS * RectTop(r) > r * SCALE_HEIGHT
    /\ NUMBER_BUTTONS * (RectTop(r) + RectHeight) < (r + 1) * SCALE_HEIGHT

\* C22: every rectangle sampled so far, left and right, with its origin
\* and size truncated to integers, lies entirely inside the 1000 x 1500
\* rectified image and strictly inside the vertical band of its row, so
\* rectangles of different rows share no pixel and none covers a gridline
\* position.
C22_RectanglesInsideRowBand ==
    pc \in {"sample", "done"} =>
        \A side \in Sides : \A r \in 0..(i - 1) :
            /\ InsideBand(side, r)
            /\ SliceArea(side, r) = RectWidth(side) * RectHeight
            /\ \A r2 \in 0..(i - 1) :
                   r2 # r => BoxOverlap(Slice(side, r), Slice(side, r2)) = 0

\* all 23 rows sampled; row 19 starts at y = 1250 exactly, the last
\* rectangle ends at pixel row 1487
C22_Witness ==
    /\ pc = "done"
    /\ i = NUMBER_BUTTONS
    /\ Slice("left", 19).y0 = 1250
    /\ Slice("right", NUMBER_BUTTONS - 1).y1 = 1487
    /\ Slice("right", 0).x0 = 900

\* the snapshots 1..n, in that order, each once
FirstSnapshots(n) == [j \in 1..n |-> j]

\* C23: the snapshots written are always 1..n in ascending order, each
\* once; with diagnostics enabled a run that failed for lack of segments
\* has written exactly 1-3, a run at or failed at the group-count gate
\* exactly 1-4 (the overlay precedes the check), and snapshot 5 has been
\* written exactly by the runs that succeeded.
C23_SnapshotsInOrder ==
    /\ \E n \in 0..5 : snapshots = FirstSnapshots(n)
    /\ log_photos =>
          /\ (Raised("ChoreBoardNotFound") /\ lines = <<>>) =>
                 snapshots = FirstSnapshots(3)
          /\ (Raised("ChoreBoardNotFound") /\ lines # <<>>) =>
                 snapshots = FirstSnapshots(4)
          /\ pc = "gate" => snapshots = FirstSnapshots(4)
          /\ pc \in {"corners", "sample"} => snapshots = FirstSnapshots(4)
          /\ pc = "done" <=> snapshots = FirstSnapshots(5)

\* 25 groups with diagnostics enabled: the overlay was written, then the
\* gate failed
C23_Witness ==
    /\ log_photos
    /\ Raised("ChoreBoardNotFound")
    /\ Len(group_lines) = NUMBER_WHITE_LINES + 1
    /\ snapshots = <<1, 2, 3, 4>>

\* the lists holding the same raw segments in another order
Reorderings(segs) ==
    {[j \in 1..Len(segs) |-> segs[f[j]]] : f \in Permutations(1..Len(segs))}

\* the groups of a list of raw segments, as a set
GroupSet(segs, h) ==
    LET gs == GroupLines(segs, h) IN {gs[j] : j \in 1..Len(gs)}

\* C26 as claimed: whatever order the detector lists the raw segments in,
\* grouping yields the same number of groups and the same groups.
C26_GroupingIgnoresOrder ==
    (pc = "group" /\ k = 0 /\ Len(lines) <= MaxSegs) =>
        \A segs \in Reorderings(lines) :
            /\ Len(GroupLines(segs, img_height(image)))
                  = Len(GroupLines(lines, img_height(image)))
            /\ GroupSet(segs, img_height(image))
                  = GroupSet(lines, img_height(image))

\* positions of the groups whose endpoints the step just taken changed
ChangedGroups ==
    {j \in 1..Len(group_lines) : lines'[group_lines[j]] # lines[group_lines[j]]}

\* what holds of every step of the grouping loop: a steep segment changes
\* nothing; the groups there are stay in place, each on its own row; the
\* number of groups grows by at most one and stays within the number of
\* segments processed
GroupsKept ==
    /\ Steep(lines[k + 1]) => (group_lines' = group_lines /\ lines' = lines)
    /\ Len(group_lines') \in {Len(group_lines), Len(group_lines) + 1}
    /\ Len(group_lines') <= k'
    /\ \A j \in 1..Len(group_lines) : group_lines'[j] = group_lines[j]
    /\ \A j, j2 \in 1..Len(group_lines') :
           j # j2 => group_lines'[j] # group_lines'[j2]
    /\ \A r \in 1..Len(lines) :
           (\A j \in 1..Len(group_lines) : group_lines[j] # r) => lines'[r] = lines[r]

\* C27 as claimed: a slope-passing segment either changes the endpoints of
\* exactly one existing group, or appends exactly one new group and leaves
\* all existing groups unchanged; groups are never merged with each other
\* and their number never decreases nor exceeds the segments processed.
C27_ExactlyOneGroupChanges ==
    [][SegmentStep =>
          /\ GroupsKept
          /\ ~Steep(lines[k + 1]) =>
                \/ /\ group_lines' = group_lines
                   /\ Cardinality(ChangedGroups) = 1
                \/ /\ group_lines' = Append(group_lines, k + 1)
                   /\ ChangedGroups = {}]_vars

\* C27 amended: a slope-passing segment is either merged into one existing
\* group, changing the endpoints of at most one group (of none when it lies
\* within the extent the group already has), or appends exactly one new
\* group and leaves all existing groups unchanged; groups are never merged
\* with each other and their number never decreases nor exceeds the
\* segments processed.
C27_AtMostOneGroupChanges ==
    [][SegmentStep =>
          /\ GroupsKept
          /\ ~Steep(lines[k + 1]) =>
                \/ /\ group_lines' = group_lines
                   /\ Cardinality(ChangedGroups) <= 1
                \/ /\ group_lines' = Append(group_lines, k + 1)
                   /\ ChangedGroups = {}]_vars

\* the left half of a line already grouped was merged into its group and
\* changed nothing; a far parallel then started a second group
C27_Witness ==
    /\ pc = "group"
    /\ k = 3
    /\ lines = <<<<0, 0, 16, 0>>, <<0, 0, 8, 0>>, <<0, 8, 16, 8>>>>
    /\ group_lines = <<1, 3>>

IndexLists == {"left_buttons_idx", "right_buttons_idx"}

\* C28: the constructor has returned exactly when the whole pipeline has
\* run; then both index lists are set and hold the result of all
\* NUMBER_BUTTONS rows; while the pipeline runs and after any failure
\* neither list is set, so no caller holds an object with unset lists or
\* with lists of a partial run.
C28_ListsSetIffReturned ==
    /\ pc = "done" =>
          /\ IndexLists \subseteq attrs
          /\ i = NUMBER_BUTTONS
          /\ left_buttons_idx = Nonzero(left_buttons)
          /\ right_buttons_idx = Nonzero(right_buttons)
          /\ exc = NoException
    /\ pc # "done" => attrs \cap IndexLists = {}
    /\ pc = "raised" => exc # NoException

\* a run that failed at the gate after grouping 23 lines: image and
\* log_photos are set, the lists are not
C28_Witness ==
    /\ pc = "raised"
    /\ Len(group_lines) = NUMBER_WHITE_LINES - 1
    /\ attrs = {"image", "log_photos"}
    /\ left_buttons_idx = <<>>
    /\ snapshots = <<>>

\* C29: drawing never changes a pixel that is read afterwards.  The image
\* decoded from the bytes is the one warped: the overlay, drawn on a copy,
\* leaves it as decoded.  In the sampling loop no rectangle still to be
\* sampled (both rectangles of the rows from i on) has a pixel overwritten
\* by a marker outline, the left outline of a row touches no pixel of the
\* right rectangle of that row, and the flags stored are those of the
\* pixel counts of the rectified image as warped.
C29_DrawingTouchesNoLaterRead ==
    /\ image.ok =>
          image = [ok |-> TRUE, rows |-> bytes.shape[1], cols |-> bytes.shape[2]]
    /\ pc \in {"sample", "done"} =>
          /\ \A s \in Markers : s[2] >= i => img_scale.over[s] = 0
          /\ \A r \in 0..(i - 1) :
                /\ OutlineOverlap("left", r, "right", r) = 0
                /\ left_buttons[r] = Flag(img_scale.cnt["left"][r], "left")
                /\ right_buttons[r] = Flag(img_scale.cnt["right"][r], "right")

\* three rows sampled and marked: the outlines lie on the rectangles of
\* these rows, the painted rectangle of row 3 is still as warped
C29_Witness ==
    /\ pc = "sample"
    /\ i = 3
    /\ img_scale.over[<<"left", 2>>] > 0
    /\ img_scale.over[<<"right", 2>>] > 0
    /\ img_scale.cnt["right"][3] = SliceArea("right", 3)
    /\ img_scale.over[<<"right", 3>>] = 0

----------------------------------------------------------------------------
(* Two PhotoProcessor constructions in parallel workers.  The OpenCV calls
   are deterministic: what they return is a function of the byte buffer, so
   a buffer is given here by what cv.imdecode, cv.HoughLinesP and
   cv.warpPerspective return for it. *)

Runs == {1, 2}

\* seconds the clock can advance while the workers run
MaxClock == 1

\* a rectified image with the rows L painted left and R painted right
BoardImage(L, R) ==
    [cnt |-> [side \in Sides |-> [r \in Rows |->
                PaintCount(side, r,
                           r \in (IF side = "left" THEN L ELSE R), FALSE)]],
     over |-> [s \in Markers |-> 0]]

\* the byte buffers: no image; an image with no segment ("blank"); a board
\* of 23 gridlines ("short"); two boards of 24 gridlines with different
\* buttons painted ("plain", "split")
Jpeg(sc) == [kind |-> "jpeg", shape |-> <<64, 200>>, scene |-> sc]

Photos ==
    {[kind |-> "garbage", shape |-> <<0, 0>>, scene |-> "none"]}
    \cup {Jpeg(sc) : sc \in {"blank", "short", "plain", "split"}}

\* cv.imdecode(npimg, cv.IMREAD_COLOR), line 88: None for bytes that are no image
imdecode(b) ==
    IF b.kind = "jpeg"
    THEN [ok |-> TRUE, rows |-> b.shape[1], cols |-> b.shape[2],
          scene |-> b.scene]
    ELSE [ok |-> FALSE, rows |-> 0, cols |-> 0, scene |-> "none"]

\* what cv.HoughLinesP (lines 151-152) returns for a decoded image
DetectedLines(img) ==
    CASE img.scene = "short" -> PlainBoard(NUMBER_WHITE_LINES - 1)
      [] img.scene = "plain" -> PlainBoard(NUMBER_WHITE_LINES)
      [] img.scene = "split" -> SplitBoard(NUMBER_WHITE_LINES)
      [] OTHER -> <<>>

\* len(group_lines) after the loop of lines 161-190 on the segments
\* detected in the image of a scene
CountGroups(sc) ==
    LET img == imdecode(Jpeg(sc))
    IN  Len(GroupLines(DetectedLines(img), img_height(img)))

\* the same, worked out once per scene
GroupCount ==
    [short |-> CountGroups("short"), plain |-> CountGroups("plain"),
     split |-> CountGroups("split")]

\* what cv.warpPerspective (line 223) returns for a decoded image
Warped(img) ==
    CASE img.scene = "plain" -> BoardImage({2, 5}, {0})
      [] img.scene = "split" -> BoardImage({NUMBER_BUTTONS - 1}, {0, 3})
      [] OTHER -> NoRectified

\* an instance before __init__ has stored anything
NoObject ==
    [image |-> imdecode([kind |-> "garbage"]), log_photos |-> FALSE,
     left_buttons_idx |-> <<>>, right_buttons_idx |-> <<>>]

\* photo_name_prefix while unbound
NoPrefix == -1

\* what the caller of PhotoProcessor(...) has got so far
Running == [kind |-> "running"]

Returned(l, r) == [kind |-> "returned", left |-> l, right |-> r]

Failed(e) == [kind |-> "raised", exc |-> e]

\* os.makedirs, line 125, when the directory cannot be created
MakedirsError == [type |-> "OSError", args |-> <<>>]

\* photo_name_prefix read (lines 133, 139, 197, 263) while unbound
UnboundPrefixError == [type |-> "UnboundLocalError", args |-> <<>>]

\* both workers constructing on one instance
Self_Shared(r) == 1

\* `self` in __init__: PhotoProcessor(...) makes a new instance per call
Self(r) == r

\* photo_name_prefix + "<n>_<name>.jpg": the directory is named by the
\* second of line 124, the file by the snapshot number
SnapshotPath(prefix, n) == <<prefix, n>>

Paths == (0..MaxClock) \X (1..5)

\* cv.imwrite(path, ...) by worker r
Written(path, r) == [files EXCEPT ![path] = Append(@, r)]

\* the loop of lines 230-260 and lines 266-267 on a rectified image
Sampled(img, side) ==
    Nonzero([r \in Rows |-> Flag(img.cnt[side][r], side)])

PairInit ==
    /\ args \in [Runs -> [image : Photos, log_photos : BOOLEAN]]
    /\ obj = [o \in Runs |-> NoObject]
    /\ frame = [r \in Runs |->
                  [pc |-> "new", img |-> NoObject.image,
                   photo_name_prefix |-> NoPrefix, result |-> Running]]
    /\ clock = 0
    /\ writable \in BOOLEAN
    /\ files = [p \in Paths |-> <<>>]

\* the single run of Spec is not part of this specification
SoloIdle ==
    /\ pc = "idle"
    /\ bytes = [kind |-> "empty", shape |-> <<0, 0>>]
    /\ log_photos = FALSE
    /\ attrs = {}
    /\ image = NoImage
    /\ snapshots = <<>>
    /\ lines = <<>>
    /\ k = 0
    /\ group_lines = <<>>
    /\ group_line_num = <<>>
    /\ src = <<>>
    /\ img_scale = NoRectified
    /\ i = 0
    /\ left_buttons = Zeros
    /\ right_buttons = Zeros
    /\ left_buttons_idx = <<>>
    /\ right_buttons_idx = <<>>
    /\ exc = NoException

InitPair == SoloIdle /\ PairInit /\ TableIdle /\ RemindIdle

RunRaise(r, e) ==
    frame' = [frame EXCEPT ![r].pc = "raised", ![r].result = Failed(e)]

\* a snapshot of lines 132-133, 138-139, 196-197, 262-263 by worker r:
\* `if self.log_photos: cv.imwrite(photo_name_prefix + ..., ...)`
RunSnapshot(r, n, next) ==
    IF ~obj[Self(r)].log_photos
    THEN /\ frame' = [frame EXCEPT ![r].pc = next]
         /\ UNCHANGED files
    ELSE IF frame[r].photo_name_prefix = NoPrefix
    THEN /\ RunRaise(r, UnboundPrefixError)
         /\ UNCHANGED files
    ELSE /\ frame' = [frame EXCEPT ![r].pc = next]
         /\ files' = Written(SnapshotPath(frame[r].photo_name_prefix, n), r)

\* __init__, lines 87-94: the attributes are stored on self
RunConstruct(r) ==
    /\ frame[r].pc = "new"
    /\ obj' = [obj EXCEPT ![Self(r)].image = imdecode(args[r].image),
                          ![Self(r)].log_photos = args[r].log_photos]
    /\ frame' = [frame EXCEPT ![r].pc = "call"]
    /\ UNCHANGED <<args, clock, writable, files, soloVars, tableVars, remindVars>>

\* lines 115-126: img = self.image, its shape, and the first snapshot,
\* whose directory is named by the current second and created first
RunMask(r) ==
    /\ frame[r].pc = "call"
    /\ LET img == obj[Self(r)].image IN
       IF ~img.ok
       THEN RunRaise(r, ShapeOfNoneError) /\ UNCHANGED files
       ELSE IF ~obj[Self(r)].log_photos
       THEN /\ frame' = [frame EXCEPT ![r].pc = "erode", ![r].img = img]
            /\ UNCHANGED files
       ELSE IF ~writable
       THEN RunRaise(r, MakedirsError) /\ UNCHANGED files
       ELSE /\ frame' = [frame EXCEPT ![r].pc = "erode", ![r].img = img,
                                      ![r].photo_name_prefix = clock]
            /\ files' = Written(SnapshotPath(clock, 1), r)
    /\ UNCHANGED <<args, obj, clock, writable, soloVars, tableVars, remindVars>>

\* lines 129-133
RunErode(r) ==
    /\ frame[r].pc = "erode"
    /\ RunSnapshot(r, 2, "dilate")
    /\ UNCHANGED <<args, obj, clock, writable, soloVars, tableVars, remindVars>>

\* lines 135-139
RunDilate(r) ==
    /\ frame[r].pc = "dilate"
    /\ RunSnapshot(r, 3, "hough")
    /\ UNCHANGED <<args, obj, clock, writable, soloVars, tableVars, remindVars>>

\* lines 144-203: detection, grouping, the overlay snapshot, the gate
RunGroup(r) ==
    /\ frame[r].pc = "hough"
    /\ LET img == frame[r].img IN
       IF NothingDetected(DetectedLines(img))
       THEN RunRaise(r, NoLinesError) /\ UNCHANGED files
       ELSE LET found == GroupCount[img.scene] IN
            IF obj[Self(r)].log_photos /\ frame[r].photo_name_prefix = NoPrefix
            THEN RunRaise(r, UnboundPrefixError) /\ UNCHANGED files
            ELSE /\ files' = IF obj[Self(r)].log_photos
                             THEN Written(SnapshotPath(frame[r].photo_name_prefix, 4), r)
                             ELSE files
                 /\ IF GateFails(found)
                    THEN RunRaise(r, LineCountError(found))
                    ELSE frame' = [frame EXCEPT ![r].pc = "sample"]
    /\ UNCHANGED <<args, obj, clock, writable, soloVars, tableVars, remindVars>>

\* lines 208-267: rectification, sampling, the last snapshot, the lists
RunSample(r) ==
    /\ frame[r].pc = "sample"
    /\ RunSnapshot(r, 5, "return")
    /\ obj' = IF frame'[r].pc = "return"
              THEN [obj EXCEPT
                      ![Self(r)].left_buttons_idx = Sampled(Warped(frame[r].img), "left"),
                      ![Self(r)].right_buttons_idx = Sampled(Warped(frame[r].img), "right")]
              ELSE obj
    /\ UNCHANGED <<args, clock, writable, soloVars, tableVars, remindVars>>

\* the caller, after the constructor returned: get_left_buttons() and
\* get_right_buttons(), lines 107-111
RunReturn(r) ==
    /\ frame[r].pc = "return"
    /\ frame' = [frame EXCEPT
                   ![r].pc = "done",
                   ![r].result = Returned(obj[Self(r)].left_buttons_idx,
                                          obj[Self(r)].right_buttons_idx)]
    /\ UNCHANGED <<args, obj, clock, writable, files, soloVars, tableVars, remindVars>>

\* time passes
Tick ==
    /\ clock < MaxClock
    /\ clock' = clock + 1
    /\ UNCHANGED <<args, obj, frame, writable, files, soloVars, tableVars, remindVars>>

NextPair ==
    \/ Tick
    \/ \E r \in Runs :
          \/ RunConstruct(r)
          \/ RunMask(r)
          \/ RunErode(r)
          \/ RunDilate(r)
          \/ RunGroup(r)
          \/ RunSample(r)
          \/ RunReturn(r)

SpecPair == InitPair /\ [][NextPair]_vars

Finished(r) == frame[r].pc \in {"done", "raised"}

\* the outcome of one construction running alone
Alone(b, lp, w) ==
    LET img == imdecode(b) IN
    IF ~img.ok THEN Failed(ShapeOfNoneError)
    ELSE IF lp /\ ~w THEN Failed(MakedirsError)
    ELSE IF NothingDetected(DetectedLines(img)) THEN Failed(NoLinesError)
    ELSE LET found == GroupCount[img.scene] IN
         IF GateFails(found) THEN Failed(LineCountError(found))
         ELSE Returned(Sampled(Warped(img), "left"), Sampled(Warped(img), "right"))

\* C12 as claimed: two runs on identical bytes end in the same outcome,
\* the same lists or the same failure, whatever log_photos is in each and
\* whether or not the diagnostic directory can be written.
C12_SameBytesSameOutcome ==
    (Finished(1) /\ Finished(2) /\ args[1].image = args[2].image) =>
        frame[1].result = frame[2].result

\* C13 as claimed: no snapshot path is written by both runs.
C13_SnapshotPathsDistinct ==
    \A p \in Paths : \A a, b \in 1..Len(files[p]) : files[p][a] = files[p][b]

\* C14: under every interleaving, a finished run has the outcome its
\* construction has when it runs alone on the same bytes, flag and
\* directory.
C14_OutcomeAsAlone ==
    \A r \in Runs :
        Finished(r) =>
            frame[r].result = Alone(args[r].image, args[r].log_photos, writable)

\* two boards with different buttons, both returned; the runs overlapped:
\* worker 1 wrote the first snapshot first, worker 2 the last one first
C14_Witness ==
    /\ frame[1].result = Returned(<<2, 5>>, <<0>>)
    /\ frame[2].result = Returned(<<NUMBER_BUTTONS - 1>>, <<0, 3>>)
    /\ files[<<0, 1>>] = <<1, 2>>
    /\ files[<<0, 5>>] = <<2, 1>>

----------------------------------------------------------------------------
(* src/src/storage.py: one PersistentTable, its rows, its CSV file, and the
   threads that assign row members and append rows.  A text holding names
   joined by "|" is the sequence of those names; a date text "%Y/%m/%d" is
   the sequence year, month, day; a CSV file is its header and its rows of
   values in header order. *)

Threads == {1, 2}

\* modifications made in one behaviour
MaxOps == 2

Range(q) == {q[n] : n \in 1..Len(q)}

\* the members of UserRole and ChoreCompletionFlag, in definition order
UserRoleNames == <<"ADMIN", "MANAGER", "RESIDENT", "CHOREDOER">>

ChoreCompletionFlagNames ==
    <<"COMPLETE_ON_TIME", "LATE_PENDING", "COMPLETE_LATE", "DID_NOT_COMPLETE",
      "MANUALLY_CORRECTED", "OUT_OF_HOUSE">>

\* "|".join(r.name for r in flag): a Flag iterates its members in definition order
JoinNames(flag, order) == SelectSeq(order, LAMBDA n : n \in flag)

\* the loop over text.split("|"): names of members are or-ed in, others skipped
SplitNames(text, order) == Range(text) \cap Range(order)

\* date.strftime("%Y/%m/%d") and datetime.strptime(text, "%Y/%m/%d")
strftime(d) == <<d.y, d.m, d.d>>

strptime(text) == [y |-> text[1], m |-> text[2], d |-> text[3]]

\* [f.name for f in fields(self)], line 43.  User is a dataclass of three
\* fields; ChoreCompletion is a plain subclass of the dataclass TableRow,
\* which has none.
Fields(rt) == IF rt = "User" THEN {"name", "slack_id", "roles"} ELSE {}

\* User.as_dict (lines 210-215), ChoreCompletion.as_dict (lines 401-414)
as_dict(rt, r) ==
    IF rt = "User"
    THEN [name |-> r.name, slack_id |-> r.slack_id,
          roles |-> JoinNames(r.roles, UserRoleNames)]
    ELSE ("date" :> strftime(r.date))
         @@ [n \in DOMAIN r.completion |->
               JoinNames(r.completion[n], ChoreCompletionFlagNames)]

\* User.from_dict (lines 194-208), ChoreCompletion.from_dict (lines 372-399)
from_dict(rt, d) ==
    IF rt = "User"
    THEN [name |-> d["name"], slack_id |-> d["slack_id"],
          roles |-> SplitNames(d["roles"], UserRoleNames)]
    ELSE [date |-> strptime(d["date"]),
          completion |-> [n \in (DOMAIN d) \ {"date"} |->
                            SplitNames(d[n], ChoreCompletionFlagNames)]]

\* a path with no file, and a file just opened for writing
NoFile == [exists |-> FALSE, header |-> <<>>, rows |-> <<>>]

EmptyFile == [exists |-> TRUE, header |-> <<>>, rows |-> <<>>]

\* csv.DictWriter: a row's values in fieldnames order, "" for a missing key
WriteRow(fns, d) ==
    [n \in 1..Len(fns) |-> IF fns[n] \in DOMAIN d THEN d[fns[n]] ELSE <<>>]

\* csv.DictReader: a row's values keyed by the header
ReadRow(header, row) ==
    [f \in Range(header) |->
        row[CHOOSE n \in 1..Len(header) : header[n] = f]]

\* dump, lines 143-149: header and rows as written by the DictWriter
dump(fns, rt, rows) ==
    [exists |-> TRUE, header |-> fns,
     rows |-> [n \in 1..Len(rows) |-> WriteRow(fns, as_dict(rt, rows[n]))]]

\* DictWriter raises ValueError for a dict with a key outside fieldnames
DumpRaises(fns, rt, rows) ==
    \E n \in 1..Len(rows) : ~(DOMAIN as_dict(rt, rows[n]) \subseteq Range(fns))

\* load, lines 113-128: the rows a table built on the file holds
load(rt, file) ==
    [n \in 1..Len(file.rows) |->
        from_dict(rt, ReadRow(file.header, file.rows[n]))]

\* the row types modelled
RowTypes == {"User", "ChoreCompletion"}

\* the rows the data file holds when the table is constructed
StoredRows(rt) ==
    IF rt = "User"
    THEN {<<[name |-> "Dave", slack_id |-> "U1", roles |-> {"MANAGER"}]>>}
    ELSE {<<>>,
          <<[date |-> [y |-> 1999, m |-> 2, d |-> 3],
             completion |-> [foo |-> {"LATE_PENDING"}]]>>}

\* self.fieldnames after construction.  PersistentTable.__init__ (line 104)
\* takes the dataclass fields of the row type; ChoreCompletionTable
\* (lines 427-458, names = ["foo"]) replaces that by names + ["date"] only
\* when a name is not among those of the first loaded row.
InitialFieldnames(rt, rows) ==
    IF rt = "User" THEN <<"name", "slack_id", "roles">>
    ELSE IF rows = <<>> THEN <<"foo", "date">>
    ELSE <<>>

\* rows a thread may append
NewRows(rt) ==
    IF rt = "User"
    THEN {[name |-> "Barb", slack_id |-> "U2", roles |-> {"RESIDENT", "CHOREDOER"}],
          [name |-> "", slack_id |-> "", roles |-> {}]}
    ELSE {[date |-> [y |-> 2001, m |-> 4, d |-> 4], completion |-> [foo |-> {}]],
          [date |-> [y |-> 2001, m |-> 4, d |-> 4],
           completion |-> [zed |-> {"DID_NOT_COMPLETE"}]]}

\* attribute assignments a thread may make on a row: <<name, value>>
Assignments(rt) ==
    IF rt = "User"
    THEN {<<"name", "Barb">>, <<"slack_id", "U2">>,
          <<"roles", {"ADMIN", "CHOREDOER"}>>, <<"roles", {}>>}
    ELSE {<<"date", [y |-> 2000, m |-> 1, d |-> 1]>>}

\* row[key] = value on a ChoreCompletion row: <<key, value>>
ItemAssignments ==
    {<<"foo", {}>>, <<"foo", {"COMPLETE_ON_TIME", "LATE_PENDING"}>>}

TableInit ==
    /\ row_type \in RowTypes
    /\ items \in StoredRows(row_type)
    /\ fieldnames = InitialFieldnames(row_type, items)
    /\ datafile = dump(IF row_type = "User" THEN fieldnames ELSE <<"foo", "date">>,
                       row_type, items)
    /\ tmpfile = NoFile
    /\ lock = 0
    /\ th = [t \in Threads |-> [pc |-> "idle", buf |-> NoFile, entry |-> 0]]
    /\ log = <<>>

InitTable == SoloIdle /\ PairIdle /\ TableInit /\ RemindIdle

\* a modification enters memory: its record
Entry(op, idx, attr, val, status) ==
    [op |-> op, idx |-> idx, attr |-> attr, val |-> val, status |-> status]

\* TableRow.__setattr__, lines 41-45: a name that is no dataclass field is
\* set on the object, with no lock and no sync
SetPlain(t) ==
    /\ th[t].pc = "idle"
    /\ Len(log) < MaxOps
    /\ \E idx \in 1..Len(items) : \E a \in Assignments(row_type) :
          /\ a[1] \notin Fields(row_type)
          /\ items' = [items EXCEPT ![idx][a[1]] = a[2]]
          /\ log' = Append(log, Entry("set", idx, a[1], a[2], "normal"))
    /\ UNCHANGED <<row_type, fieldnames, datafile, tmpfile, lock, th,
                   soloVars, pairVars, remindVars>>

\* TableRow.__setattr__, lines 46-48: `with self.get_lock():` (the lock of
\* the parent table, lines 54-66) and object.__setattr__; sync follows
SetField(t) ==
    /\ th[t].pc = "idle"
    /\ Len(log) < MaxOps
    /\ lock = 0
    /\ \E idx \in 1..Len(items) : \E a \in Assignments(row_type) :
          /\ a[1] \in Fields(row_type)
          /\ items' = [items EXCEPT ![idx][a[1]] = a[2]]
          /\ log' = Append(log, Entry("set", idx, a[1], a[2], "running"))
    /\ lock' = t
    /\ th' = [th EXCEPT ![t].pc = "sync", ![t].entry = Len(log) + 1]
    /\ UNCHANGED <<row_type, fieldnames, datafile, tmpfile, soloVars, pairVars, remindVars>>

\* ChoreCompletion.__setitem__, lines 364-367
SetItem(t) ==
    /\ th[t].pc = "idle"
    /\ Len(log) < MaxOps
    /\ lock = 0
    /\ row_type = "ChoreCompletion"
    /\ \E idx \in 1..Len(items) : \E a \in ItemAssignments :
          /\ items' = [items EXCEPT ![idx].completion =
                          (a[1] :> a[2]) @@ items[idx].completion]
          /\ log' = Append(log, Entry("setitem", idx, a[1], a[2], "running"))
    /\ lock' = t
    /\ th' = [th EXCEPT ![t].pc = "sync", ![t].entry = Len(log) + 1]
    /\ UNCHANGED <<row_type, fieldnames, datafile, tmpfile, soloVars, pairVars, remindVars>>

\* PersistentTable.append, lines 163-169: set_parent_table, the lock,
\* items.append; sync follows
TableAppend(t) ==
    /\ th[t].pc = "idle"
    /\ Len(log) < MaxOps
    /\ lock = 0
    /\ \E row \in NewRows(row_type) :
          /\ items' = Append(items, row)
          /\ log' = Append(log, Entry("append", Len(items) + 1, "", row, "running"))
    /\ lock' = t
    /\ th' = [th EXCEPT ![t].pc = "sync", ![t].entry = Len(log) + 1]
    /\ UNCHANGED <<row_type, fieldnames, datafile, tmpfile, soloVars, pairVars, remindVars>>

\* sync, lines 134-135: open(tempname, "w") creates or truncates the file
SyncOpen(t) ==
    /\ th[t].pc = "sync"
    /\ tmpfile' = EmptyFile
    /\ th' = [th EXCEPT ![t].pc = "opened"]
    /\ UNCHANGED <<row_type, fieldnames, items, datafile, lock, log,
                   soloVars, pairVars, remindVars>>

\* sync, lines 136-140: dump writes into the buffer of the open file (the
\* tables here are far smaller than the buffer, so nothing reaches the
\* file yet); when it raises, the temporary file is removed, the error
\* goes on, and leaving both `with` blocks closes the file and releases
\* the lock
SyncDump(t) ==
    /\ th[t].pc = "opened"
    /\ IF DumpRaises(fieldnames, row_type, items)
       THEN /\ tmpfile' = NoFile
            /\ lock' = 0
            /\ th' = [th EXCEPT ![t].pc = "idle", ![t].entry = 0]
            /\ log' = [log EXCEPT ![th[t].entry].status = "raised"]
       ELSE /\ th' = [th EXCEPT ![t].pc = "dumped",
                                ![t].buf = dump(fieldnames, row_type, items)]
            /\ UNCHANGED <<tmpfile, lock, log>>
    /\ UNCHANGED <<row_type, fieldnames, items, datafile, soloVars, pairVars, remindVars>>

\* sync, line 141: shutil.move(tempname, self.filename), inside the `with`
\* block of the still open file: the data file is now the file opened in
\* SyncOpen, with what has reached it so far
SyncMove(t) ==
    /\ th[t].pc = "dumped"
    /\ datafile' = tmpfile
    /\ tmpfile' = NoFile
    /\ th' = [th EXCEPT ![t].pc = "moved"]
    /\ UNCHANGED <<row_type, fieldnames, items, lock, log, soloVars, pairVars, remindVars>>

\* leaving the `with open(...)` block closes the file, which writes the
\* buffer out; leaving `with self.get_lock()` releases the lock; the call
\* returns
SyncClose(t) ==
    /\ th[t].pc = "moved"
    /\ datafile' = th[t].buf
    /\ lock' = 0
    /\ th' = [th EXCEPT ![t].pc = "idle", ![t].buf = NoFile, ![t].entry = 0]
    /\ log' = [log EXCEPT ![th[t].entry].status = "normal"]
    /\ UNCHANGED <<row_type, fieldnames, items, tmpfile, soloVars, pairVars, remindVars>>

NextTable ==
    \E t \in Threads :
        \/ SetPlain(t)
        \/ SetField(t)
        \/ SetItem(t)
        \/ TableAppend(t)
        \/ SyncOpen(t)
        \/ SyncDump(t)
        \/ SyncMove(t)
        \/ SyncClose(t)

SpecTable == InitTable /\ [][NextTable]_vars

\* no call is in progress
Quiescent == lock = 0 /\ \A t \in Threads : th[t].pc = "idle"

\* some modification was made, and every call returned normally
AllNormal == log # <<>> /\ \A n \in 1..Len(log) : log[n].status = "normal"

\* C15 as claimed: after member assignments on rows of the table and
\* appends that returned normally, the data file holds exactly the rows
\* the table has in memory, in order: a table loaded from it has them.
C15_WriteThrough ==
    (Quiescent /\ AllNormal) =>
        /\ datafile.exists
        /\ load(row_type, datafile) = items

InSection(t) == th[t].pc \in {"sync", "opened", "dumped", "moved"}

\* a later modification of the same member of the same row
Overwritten(n) ==
    \E m \in (n + 1)..Len(log) :
        /\ log[m].op = log[n].op
        /\ log[m].idx = log[n].idx
        /\ log[m].attr = log[n].attr

\* the n-th modification can be read from the data file
InFile(n) ==
    LET e    == log[n]
        rows == load(row_type, datafile)
    IN  /\ Len(rows) >= e.idx
        /\ e.op = "set" => (Overwritten(n) \/ rows[e.idx][e.attr] = e.val)
        /\ e.op = "setitem" =>
              (Overwritten(n) \/ rows[e.idx].completion[e.attr] = e.val)

\* C16 as claimed: at most one thread at a time is between acquiring the
\* table lock and releasing it, and once all calls have returned the data
\* file contains every modification made.
C16_ThreadSafe ==
    /\ \A t1, t2 \in Threads : (InSection(t1) /\ InSection(t2)) => t1 = t2
    /\ (Quiescent /\ AllNormal) => \A n \in 1..Len(log) : InFile(n)

\* the file holds a table written out in full: at least its header line
Complete(file) == file.exists /\ file.header # <<>>

\* the data files the table may have been constructed on
InitialFiles ==
    {dump(IF row_type = "User" THEN InitialFieldnames(row_type, rows)
                               ELSE <<"foo", "date">>, row_type, rows) :
        rows \in StoredRows(row_type)}

\* C24 as claimed: the data file always holds a completely written table,
\* whatever moment a reader opens it; after a sync whose dump raised, the
\* temporary file is gone and, when no sync succeeded, the data file still
\* has the content it had at construction.
C24_SyncReplacesAtomically ==
    /\ Complete(datafile)
    /\ Quiescent => tmpfile = NoFile
    /\ (Quiescent /\ log # <<>>
           /\ \A n \in 1..Len(log) : log[n].status = "raised") =>
          datafile \in InitialFiles

----------------------------------------------------------------------------
(* The table lock.  The calls of SpecTable take the lock in the step that
   starts them; here a call is first made and then waits for the lock, and
   PersistentTable.load is one of the calls.  The scheduler is fair: a
   thread that can take a step eventually takes it, and a released lock goes
   to a waiting thread. *)

NoRequest == [op |-> "none"]

\* the row under construction taking the lock of the table
RowLock_Table(attached) == "table"

\* TableRow.get_lock, lines 54-66, as called by __setattr__ while the
\* dataclass __init__ of a row runs: _parent_table does not exist yet
\* (__post_init__ has not run), so a new Lock() is returned
RowLock(attached) == IF attached THEN "table" ELSE "private"

\* the file object a caller of load passes: the data file as it is opened
\* now and read once the lock is held (after a sync that has moved its
\* file into place closes it), or a file without the columns of the rows
OpenedFile ==
    IF \E t \in Threads : th[t].pc = "moved"
    THEN th[CHOOSE t \in Threads : th[t].pc = "moved"].buf
    ELSE datafile

MalformedFile == [exists |-> TRUE, header |-> <<"x">>, rows |-> <<<<"1">>>>]

\* from_dict fails on a row: User.from_dict reads member_dict["name"],
\* ["slack_id"], ["roles"] (KeyError); ChoreCompletion.from_dict leaves
\* `date` unbound without a date column
LoadRaises(rt, file) ==
    file.rows # <<>> /\
    ~((IF rt = "User" THEN {"name", "slack_id", "roles"} ELSE {"date"})
         \subseteq Range(file.header))

\* loads started so far: each replaces all row objects of the table
LoadCount == Cardinality({n \in 1..Len(log) : log[n].op = "load"})

Waiting == {t \in Threads : th[t].pc = "wait"}

LockInit ==
    /\ row_type \in RowTypes
    /\ items \in StoredRows(row_type)
    /\ fieldnames = InitialFieldnames(row_type, items)
    /\ datafile = dump(IF row_type = "User" THEN fieldnames ELSE <<"foo", "date">>,
                       row_type, items)
    /\ tmpfile = NoFile
    /\ lock = 0
    /\ th = [t \in Threads |->
               [pc |-> "idle", buf |-> NoFile, entry |-> 0, req |-> NoRequest]]
    /\ log = <<>>

InitLock == SoloIdle /\ PairIdle /\ LockInit /\ RemindIdle

\* a thread makes a call: `row.field = value` on a row of the table
\* (lines 41-49), `row[key] = value` (lines 364-367), table.append(row)
\* (lines 163-170) or table.load(csvfile) (lines 113-128); each comes to
\* its `with self.get_lock():`
Call(t) ==
    /\ th[t].pc = "idle"
    /\ Len(log) + Cardinality(Waiting) < MaxOps
    /\ \/ \E idx \in 1..Len(items) : \E a \in Assignments(row_type) :
             /\ a[1] \in Fields(row_type)
             /\ th' = [th EXCEPT ![t].pc = "wait",
                          ![t].req = [op |-> "set", idx |-> idx, attr |-> a[1],
                                      val |-> a[2], gen |-> LoadCount]]
       \/ \E idx \in 1..Len(items) : \E a \in ItemAssignments :
             /\ row_type = "ChoreCompletion"
             /\ th' = [th EXCEPT ![t].pc = "wait",
                          ![t].req = [op |-> "setitem", idx |-> idx, attr |-> a[1],
                                      val |-> a[2], gen |-> LoadCount]]
       \/ \E row \in NewRows(row_type) :
             th' = [th EXCEPT ![t].pc = "wait",
                       ![t].req = [op |-> "append", idx |-> 0, attr |-> "",
                                   val |-> row, gen |-> LoadCount]]
       \/ \E file \in {OpenedFile, MalformedFile} :
             th' = [th EXCEPT ![t].pc = "wait",
                       ![t].req = [op |-> "load", idx |-> 0, attr |-> "",
                                   val |-> file, gen |-> LoadCount]]
    /\ UNCHANGED <<row_type, fieldnames, items, datafile, tmpfile, lock, log,
                   soloVars, pairVars, remindVars>>

\* the modification a call makes in memory once it holds the lock.  A row
\* obtained before a load is no longer in the table: assigning to it
\* changes no row of the table.
Applied(req) ==
    CASE req.op = "append" -> Append(items, req.val)
      [] req.op = "load" -> <<>>
      [] req.gen # LoadCount \/ req.idx > Len(items) -> items
      [] req.op = "set" -> [items EXCEPT ![req.idx][req.attr] = req.val]
      [] OTHER -> [items EXCEPT ![req.idx].completion =
                      (req.attr :> req.val) @@ items[req.idx].completion]

\* `with self.get_lock():` is entered: the lock is free and is taken; the
\* statement before sync(), or items.clear() of load, runs
Acquire(t) ==
    /\ th[t].pc = "wait"
    /\ lock = 0
    /\ lock' = t
    /\ items' = Applied(th[t].req)
    /\ log' = Append(log, Entry(th[t].req.op, th[t].req.idx, th[t].req.attr,
                                th[t].req.val, "running"))
    /\ th' = [th EXCEPT ![t].pc = IF th[t].req.op = "load" THEN "loading" ELSE "sync",
                        ![t].entry = Len(log) + 1]
    /\ UNCHANGED <<row_type, fieldnames, datafile, tmpfile,
                   soloVars, pairVars, remindVars>>

\* load, lines 117-128, holding the table lock: the rows are built by
\* from_dict; the __init__ of a dataclass row assigns its fields through
\* __setattr__, which enters `with self.get_lock():` on the lock of the
\* row under construction; a failure of from_dict is re-raised as
\* ValueError; leaving the `with` block releases the table lock
LoadRows(t) ==
    /\ th[t].pc = "loading"
    /\ LET file == th[t].req.val IN
       /\ (Fields(row_type) # {} /\ file.rows # <<>> /\ ~LoadRaises(row_type, file))
             => (RowLock(FALSE) = "private" \/ lock = 0)
       /\ IF LoadRaises(row_type, file)
          THEN /\ items' = <<>>
               /\ log' = [log EXCEPT ![th[t].entry].status = "raised"]
          ELSE /\ items' = load(row_type, file)
               /\ log' = [log EXCEPT ![th[t].entry].status = "normal"]
    /\ lock' = 0
    /\ th' = [th EXCEPT ![t].pc = "idle", ![t].entry = 0, ![t].req = NoRequest]
    /\ UNCHANGED <<row_type, fieldnames, datafile, tmpfile,
                   soloVars, pairVars, remindVars>>

\* the steps a thread takes by itself once its call is made
Progress(t) ==
    \/ Acquire(t)
    \/ LoadRows(t)
    \/ SyncOpen(t)
    \/ SyncDump(t)
    \/ SyncMove(t)
    \/ SyncClose(t)

NextLock == \E t \in Threads : Call(t) \/ Progress(t)

SpecLock ==
    /\ InitLock
    /\ [][NextLock]_vars
    /\ \A t \in Threads : WF_vars(Progress(t))

\* the thread is inside a `with self.get_lock():` block of the table
Holding(t) == th[t].pc \in {"loading", "sync", "opened", "dumped", "moved"}

\* C30: a thread waits for the table lock only while it does not hold it,
\* the lock is held exactly by the thread inside the locked section and is
\* free whenever no call is in progress (released on every path, a raising
\* sync or load included), and under fair scheduling every call made by
\* any thread eventually returns: no deadlock is reachable.
C30_LockNeverReentered ==
    /\ [](\A t \in Threads : (lock = t) <=> Holding(t))
    /\ [](\A t \in Threads : th[t].pc = "wait" => lock # t)
    /\ []((\A t \in Threads : th[t].pc = "idle") => lock = 0)
    /\ \A t \in Threads : (th[t].pc # "idle") ~> (th[t].pc = "idle")

\* a thread holds the lock inside load and is about to build User rows,
\* while the other thread has made its call and waits for the lock
C30_Witness ==
    \E t \in Threads : \E u \in Threads :
        /\ th[t].pc = "wait"
        /\ th[u].pc = "loading"
        /\ lock = u
        /\ row_type = "User"
        /\ th[u].req.val.rows # <<>>
        /\ ~LoadRaises(row_type, th[u].req.val)
        /\ log[th[u].entry].op = "load"

----------------------------------------------------------------------------
(* src/src/reminder.py: one run of run_reminders, the job scheduled every
   day at REMINDER_TIME, on some day of 2026. *)

\* datetime weekday numbers: Monday is 0
CHORE_DAY == 5

DaysIn == <<31, 28, 31, 30, 31, 30, 31, 31, 30, 31, 30, 31>>

Date(y, m, d) == [year |-> y, month |-> m, day |-> d]

\* the days the job may run on
Dates ==
    {dt \in {Date(2026, m, d) : m \in 1..12, d \in 1..31} :
        dt.day <= DaysIn[dt.month]}

RECURSIVE DaysBefore(_)
DaysBefore(m) == IF m = 1 THEN 0 ELSE DaysBefore(m - 1) + DaysIn[m - 1]

\* date.weekday(); 1 January 2026 is a Thursday (3)
weekday(dt) == (DaysBefore(dt.month) + dt.day - 1 + 3) % 7

\* today + datetime.timedelta(7)
next_week(dt) ==
    IF dt.day + 7 <= DaysIn[dt.month] THEN Date(dt.year, dt.month, dt.day + 7)
    ELSE IF dt.month < 12
    THEN Date(dt.year, dt.month + 1, dt.day + 7 - DaysIn[dt.month])
    ELSE Date(dt.year + 1, 1, dt.day + 7 - DaysIn[dt.month])

\* the user tables considered
UserTables ==
    {<<>>,
     <<[name |-> "Dave", slack_id |-> "U1", roles |-> {"MANAGER", "CHOREDOER"}],
       [name |-> "Barb", slack_id |-> "U2", roles |-> {"RESIDENT", "CHOREDOER"}],
       [name |-> "Carl", slack_id |-> "U3", roles |-> {"MANAGER"}]>>,
     <<[name |-> "Barb", slack_id |-> "U2", roles |-> {"RESIDENT"}],
       [name |-> "Dave", slack_id |-> "U1",
        roles |-> {"ADMIN", "MANAGER", "RESIDENT", "CHOREDOER"}]>>}

\* the kitchen assignment table: no row at all ("empty"), no assignment
\* for today ("none"), or the name assigned today
KitchenAssignments == {"empty", "none", "Barb", "Zed"}

\* a call of ss.msg_user(slack_id, msg, ignore_test_mode=True)
Message(kind, to, delivered) == [kind |-> kind, to |-> to, delivered |-> delivered]

\* line 36: `st.UserRole.MANAGER in u.roles and today.month == next_week.month`
SkipManager(u, dt) ==
    "MANAGER" \in u.roles /\ dt.month = next_week(dt).month

RemindInit ==
    /\ today \in Dates
    /\ ut \in UserTables
    /\ kat \in KitchenAssignments
    /\ rpc = "run_reminders"
    /\ u_idx = 0
    /\ outbox = <<>>

InitRemind == SoloIdle /\ PairIdle /\ TableIdle /\ RemindInit

\* the accessors of storage.py, lines 475-483: `if not _user_table: raise
\* ValueError(...)`.  A table with no row is falsy (PersistentTable
\* defines __len__), so the accessor raises for it too.
AccessorRaises(rows) == rows = <<>>

\* UserTable.get_user_by_name, storage.py lines 259-263: position of the
\* first user of that name, 0 where the code raises ValueError
UserByName(name) ==
    IF \E n \in 1..Len(ut) : ut[n].name = name
    THEN CHOOSE n \in 1..Len(ut) :
            ut[n].name = name /\ \A n2 \in 1..(n - 1) : ut[n2].name # name
    ELSE 0

\* run_reminders, lines 50-59, with remind_kitchen_cleaner, lines 17-26:
\* any exception there leaves run_reminders
RunKitchen ==
    /\ rpc = "run_reminders"
    /\ IF kat = "empty"
       THEN rpc' = "raised" /\ UNCHANGED outbox
       ELSE IF kat = "none"
       THEN rpc' = "weekday" /\ UNCHANGED outbox
       ELSE IF AccessorRaises(ut) \/ UserByName(kat) = 0
       THEN rpc' = "raised" /\ UNCHANGED outbox
       ELSE \E delivered \in BOOLEAN :
               /\ outbox' = Append(outbox,
                       Message("kitchen", ut[UserByName(kat)].slack_id, delivered))
               /\ rpc' = IF delivered THEN "weekday" ELSE "raised"
    /\ UNCHANGED <<today, ut, kat, u_idx, soloVars, pairVars, tableVars>>

\* run_reminders, lines 62-64, and remind_choredoers, line 30
RunChoreDay ==
    /\ rpc = "weekday"
    /\ rpc' = IF weekday(today) # CHORE_DAY THEN "done"
              ELSE IF AccessorRaises(ut) THEN "raised"
              ELSE "choredoers"
    /\ u_idx' = 0
    /\ UNCHANGED <<today, ut, kat, outbox, soloVars, pairVars, tableVars>>

\* one user of the table in remind_choredoers, lines 31-46: the generator
\* passes the CHOREDOER users on; an exception of msg_user is logged
RemindUser ==
    /\ rpc = "choredoers"
    /\ u_idx < Len(ut)
    /\ LET u == ut[u_idx + 1] IN
       IF "CHOREDOER" \notin u.roles \/ SkipManager(u, today)
       THEN UNCHANGED outbox
       ELSE \E delivered \in BOOLEAN :
               outbox' = Append(outbox, Message("chore", u.slack_id, delivered))
    /\ u_idx' = u_idx + 1
    /\ UNCHANGED <<today, ut, kat, rpc, soloVars, pairVars, tableVars>>

\* the loop is exhausted: remind_choredoers and run_reminders return
RemindReturn ==
    /\ rpc = "choredoers"
    /\ u_idx = Len(ut)
    /\ rpc' = "done"
    /\ UNCHANGED <<today, ut, kat, u_idx, outbox, soloVars, pairVars, tableVars>>

NextRemind ==
    \/ RunKitchen
    \/ RunChoreDay
    \/ RemindUser
    \/ RemindReturn

SpecRemind == InitRemind /\ [][NextRemind]_vars

\* the user with that slack id
UserById(id) == CHOOSE n \in 1..Len(ut) : ut[n].slack_id = id

\* C25 as claimed: a chore reminder is sent to a user holding both the
\* CHOREDOER and the MANAGER role only when the run happens on the last
\* day of the month.
C25_ManagerOnlyOnLastDay ==
    \A n \in 1..Len(outbox) :
        (/\ outbox[n].kind = "chore"
         /\ {"CHOREDOER", "MANAGER"} \subseteq ut[UserById(outbox[n].to)].roles)
            => today.day = DaysIn[today.month]

====
